---------------------------- MODULE Spec2Model ----------------------------
(***************************************************************************)
(* A model of the domain registry (blackmamba/core/domain_registry.py) and *)
(* of the domain router with its default scoring strategy                  *)
(* (blackmamba/core/domain_router.py).                                     *)
(*                                                                         *)
(* The routing scores are Python floats.  They are modelled as IEEE-754    *)
(* binary64 values: a sign and a magnitude that counts units of 2^-60,     *)
(* held as a little-endian sequence of 15-bit limbs, every operation       *)
(* rounding its exact result to 53 significant bits, ties to even.         *)
(***************************************************************************)
EXTENDS Integers, Sequences, FiniteSets, TLC

(***************************************************************************)
(* Natural numbers of any size: little-endian limbs, no leading zero limb. *)
(***************************************************************************)
Base == 32768

SigBits == 53

FracBits == 60

GuardBits == 4

RECURSIVE Trim(_)
Trim(a) ==
    IF a = <<>> THEN <<>>
    ELSE IF a[Len(a)] = 0 THEN Trim(SubSeq(a, 1, Len(a) - 1)) ELSE a

Limb(a, i) == IF i <= Len(a) THEN a[i] ELSE 0

RECURSIVE BAddC(_, _, _, _)
BAddC(a, b, i, c) ==
    IF i > Len(a) /\ i > Len(b)
    THEN (IF c = 0 THEN <<>> ELSE <<c>>)
    ELSE <<(Limb(a, i) + Limb(b, i) + c) % Base>>
         \o BAddC(a, b, i + 1, (Limb(a, i) + Limb(b, i) + c) \div Base)

BAdd(a, b) == Trim(BAddC(a, b, 1, 0))

RECURSIVE BSubC(_, _, _, _)
BSubC(a, b, i, br) ==
    IF i > Len(a) THEN <<>>
    ELSE IF Limb(a, i) - Limb(b, i) - br < 0
    THEN <<Limb(a, i) - Limb(b, i) - br + Base>> \o BSubC(a, b, i + 1, 1)
    ELSE <<Limb(a, i) - Limb(b, i) - br>> \o BSubC(a, b, i + 1, 0)

\* a - b for a >= b
BSub(a, b) == Trim(BSubC(a, b, 1, 0))

\* -1, 0, 1 as a < b, a = b, a > b: the longer one is the greater, and of two
\* of one length the one with the greater limb at the highest place they differ
BCmpLimb(x, y) == IF x > y THEN 1 ELSE -1

BCmpAt(a, b, differ) ==
    IF differ = {} THEN 0
    ELSE BCmpLimb(a[CHOOSE i \in differ : \A j \in differ : j <= i],
                  b[CHOOSE i \in differ : \A j \in differ : j <= i])

BCmp(a, b) ==
    IF Len(a) > Len(b) THEN 1
    ELSE IF Len(a) < Len(b) THEN -1
    ELSE BCmpAt(a, b, {i \in 1..Len(a) : a[i] # b[i]})

RECURSIVE BMulSmallC(_, _, _, _)
BMulSmallC(a, k, i, c) ==
    IF i > Len(a)
    THEN (IF c = 0 THEN <<>> ELSE <<c>>)
    ELSE <<(a[i] * k + c) % Base>>
         \o BMulSmallC(a, k, i + 1, (a[i] * k + c) \div Base)

\* a * k for 0 <= k < Base
BMulSmall(a, k) == Trim(BMulSmallC(a, k, 1, 0))

BShiftLimbs(a, n) == IF a = <<>> THEN <<>> ELSE [i \in 1..n |-> 0] \o a

RECURSIVE BMulAt(_, _, _)
BMulAt(a, b, i) ==
    IF i > Len(b) THEN <<>>
    ELSE BAdd(BShiftLimbs(BMulSmall(a, b[i]), i - 1), BMulAt(a, b, i + 1))

BMul(a, b) == BMulAt(a, b, 1)

\* the limbs of a from place i down, divided by k with r carried in: the
\* quotient limbs found so far are q
RECURSIVE BDivAt(_, _, _, _, _)
BDivAt(a, k, i, r, q) ==
    IF i = 0 THEN [q |-> q, r |-> r]
    ELSE BDivAt(a, k, i - 1, (r * Base + a[i]) % k,
                <<(r * Base + a[i]) \div k>> \o q)

BDivTrim(d) == [q |-> Trim(d.q), r |-> d.r]

\* quotient and remainder of a by k, 0 < k < Base
BDivSmall(a, k) == BDivTrim(BDivAt(a, k, Len(a), 0, <<>>))

BShl(a, n) == BShiftLimbs(BMulSmall(a, 2 ^ (n % 15)), n \div 15)

BShr(a, n) ==
    IF n \div 15 >= Len(a) THEN <<>>
    ELSE BDivSmall(SubSeq(a, n \div 15 + 1, Len(a)), 2 ^ (n % 15)).q

RECURSIVE SmallBitLen(_)
SmallBitLen(k) == IF k = 0 THEN 0 ELSE 1 + SmallBitLen(k \div 2)

BitLen(a) == IF a = <<>> THEN 0 ELSE 15 * (Len(a) - 1) + SmallBitLen(a[Len(a)])

(***************************************************************************)
(* Python floats.  [neg, mag]: the value (-1)^neg * mag * 2^-FracBits.     *)
(***************************************************************************)
\* what a result below the unit 2^-FracBits would need: no value of the model
Inexact == <<-1>>

\* The double nearest to (N + e) * 2^-t units, 0 <= e < 1 and e > 0 iff sticky
\* the rounded quotient q of N by 2^s, carried up when the remainder compares c
\* to half of 2^s says so, back in units of 2^-t
RoundCarry(sticky, t, s, q, c) ==
    IF s >= t
    THEN BShl(IF c = 1 \/ (c = 0 /\ (sticky \/ q[1] % 2 = 1))
              THEN BAdd(q, <<1>>) ELSE q, s - t)
    ELSE Inexact

RoundQuotient(N, sticky, t, s, q) ==
    RoundCarry(sticky, t, s, q, BCmp(BSub(N, BShl(q, s)), BShl(<<1>>, s - 1)))

RoundShift(N, sticky, t, s) ==
    IF s <= 0
    THEN (IF t = 0 /\ ~sticky THEN N ELSE Inexact)
    ELSE RoundQuotient(N, sticky, t, s, BShr(N, s))

RoundNearestEven(N, sticky, t) == RoundShift(N, sticky, t, BitLen(N) - SigBits)

FromInt(p) ==
    [neg |-> p < 0,
     mag |-> IF p = 0 THEN <<>> ELSE BShl(<<IF p < 0 THEN -p ELSE p>>, FracBits)]

FNeg(x) == [neg |-> ~x.neg, mag |-> x.mag]

FAddSigned(x, y, c) ==
    IF c = 0 THEN [neg |-> FALSE, mag |-> <<>>]
    ELSE IF c = 1
    THEN [neg |-> x.neg, mag |-> RoundNearestEven(BSub(x.mag, y.mag), FALSE, 0)]
    ELSE [neg |-> y.neg, mag |-> RoundNearestEven(BSub(y.mag, x.mag), FALSE, 0)]

FAdd(x, y) ==
    IF x.neg = y.neg
    THEN [neg |-> x.neg /\ x.mag # <<>>,
          mag |-> RoundNearestEven(BAdd(x.mag, y.mag), FALSE, 0)]
    ELSE FAddSigned(x, y, BCmp(x.mag, y.mag))

FSub(x, y) == FAdd(x, FNeg(y))

FMul(x, y) ==
    IF x.mag = <<>> \/ y.mag = <<>> THEN [neg |-> FALSE, mag |-> <<>>]
    ELSE [neg |-> x.neg # y.neg,
          mag |-> RoundNearestEven(BMul(x.mag, y.mag), FALSE, FracBits)]

\* x / k for a float x and the float of a small positive integer k
FDivRound(neg, d) ==
    [neg |-> neg, mag |-> RoundNearestEven(d.q, d.r # 0, GuardBits)]

FDivInt(x, k) ==
    IF x.mag = <<>> THEN [neg |-> FALSE, mag |-> <<>>]
    ELSE FDivRound(x.neg, BDivSmall(BShl(x.mag, GuardBits), k))

FLess(x, y) ==
    IF x.neg /\ ~y.neg THEN x.mag # <<>> \/ y.mag # <<>>
    ELSE IF ~x.neg /\ y.neg THEN FALSE
    ELSE IF x.neg THEN BCmp(x.mag, y.mag) = 1
    ELSE BCmp(x.mag, y.mag) = -1

\* Python's min(a, b) and max(a, b): the first argument unless the second beats it
FMin(a, b) == IF FLess(b, a) THEN b ELSE a

FMax(a, b) == IF FLess(a, b) THEN b ELSE a

\* the float a decimal literal n/d denotes (the nearest double)
Literal(n, d) == FDivInt(FromInt(n), d)

(***************************************************************************)
(* The values of the program.                                              *)
(***************************************************************************)
\* DomainHealth
HEALTHY == "healthy"

DEGRADED == "degraded"

UNHEALTHY == "unhealthy"

UNKNOWN == "unknown"

DomainHealth == {HEALTHY, DEGRADED, UNHEALTHY, UNKNOWN}

\* Python's None, where a processor or a name is expected
None == "None"

\* The processor objects a caller may hold, and the domain_name of each: a1 and
\* a2 are two distinct objects that report the same name.
Processors == {"a1", "a2", "b1", "c1"}

domain_name_of(processor) ==
    CASE processor \in {"a1", "a2"} -> "a"
      [] processor = "b1" -> "b"
      [] processor = "c1" -> "c"

Names == {domain_name_of(p) : p \in Processors}

\* the default of register's version argument
DefaultVersion == "1.0.0"

VARIABLES
    domains,          \* DomainRegistry._domains: the records, in insertion order
    failures,         \* DomainRouter._circuit_breaker_failures: name -> count
    fallback_chains,  \* DomainRouter._fallback_chains: name -> list of names
    ret,              \* the last call: its operation, arguments and outcome
    failure_calls,    \* history: name -> the record_failure calls made for it
                      \* since its last record_success or reset_circuit_breaker
    event_handlers,   \* DomainRegistry._event_handlers: event type -> handlers
    monitor,          \* DomainRegistry._health_check_task: where the monitoring
                      \* task stands and whether a cancellation awaits delivery
    engine,           \* CognitiveEngine: its mode, whether it has a memory store,
                      \* and its list of processors in legacy mode
    routing           \* a call of DomainRouter.route that is suspended at the
                      \* can_handle of a candidate, with the locals it holds

vars ==
    <<domains, failures, fallback_chains, ret, failure_calls, event_handlers,
      monitor, engine, routing>>

(***************************************************************************)
(* DomainRegistry                                                          *)
(***************************************************************************)
\* the keys of the dict, in insertion order
keys(d) == [i \in 1..Len(d) |-> d[i].name]

\* domain_name in self._domains
contains(d, domain_name) == \E i \in 1..Len(d) : d[i].name = domain_name

\* self._domains[domain_name], for a key of the dict
item(d, domain_name) == d[CHOOSE i \in 1..Len(d) : d[i].name = domain_name]

\* DomainInfo(processor, registered_at, version, priority, dependencies, metadata)
\* under its key; registered_at and last_health_check are timestamps, kept as
\* "set or None"; metadata is never read.
DomainInfo(processor, version, priority, dependencies) ==
    [name              |-> domain_name_of(processor),
     processor         |-> processor,
     version           |-> version,
     health            |-> UNKNOWN,
     last_health_check |-> None,
     dependencies      |-> dependencies,
     priority          |-> priority,
     enabled           |-> TRUE]

\* a registry in which no name ever counts as registered
never_registered(domain_name) == FALSE

\* domain_name in self._domains
is_registered(domain_name) == contains(domains, domain_name)

\* a dependency validation that finds nothing missing
missing_none(dependencies) == <<>>

\* a dependency validation that also rejects a dependency that is disabled or
\* not healthy
missing_or_unusable(dependencies) ==
    SelectSeq(dependencies,
              LAMBDA d : \/ ~contains(domains, d)
                         \/ ~item(domains, d).enabled
                         \/ item(domains, d).health # HEALTHY)

\* a dependency validation that looks at the first dependency only
missing_first_only(dependencies) ==
    SelectSeq(SubSeq(dependencies, 1, 1), LAMBDA d : ~contains(domains, d))

\* [d for d in dependencies if d not in self._domains]
missing(dependencies) ==
    SelectSeq(dependencies, LAMBDA d : ~contains(domains, d))

\* a dependents check that looks at the enabled records only
dependents_enabled_only(domain_name) ==
    SelectSeq(keys(domains),
              LAMBDA n : /\ item(domains, n).enabled
                         /\ \E j \in 1..Len(item(domains, n).dependencies) :
                                item(domains, n).dependencies[j] = domain_name)

\* [name for name, info in self._domains.items() if domain_name in info.dependencies]
dependents(domain_name) ==
    SelectSeq(keys(domains),
              LAMBDA n : \E j \in 1..Len(item(domains, n).dependencies) :
                             item(domains, n).dependencies[j] = domain_name)

\* self._domains.pop(domain_name)
pop(d, domain_name) == SelectSeq(d, LAMBDA e : e.name # domain_name)

\* self._domains[domain_name].<field> = value
set_field(d, domain_name, field, value) ==
    [i \in 1..Len(d) |->
        IF d[i].name = domain_name THEN [d[i] EXCEPT ![field] = value] ELSE d[i]]

\* the keys of self._event_handlers
EventTypes == {"register", "unregister", "health_change"}

\* a handler is a callable that returns or raises an Exception
Handlers == {"returns", "raises"}

\* the first handler that raises, 0 when none does
first_raising_handler(handlers) ==
    IF \E n \in 1..Len(handlers) : handlers[n] = "raises"
    THEN CHOOSE n \in 1..Len(handlers) :
             /\ handlers[n] = "raises"
             /\ \A m \in 1..(n - 1) : handlers[m] # "raises"
    ELSE 0

\* _notify_handlers, had the exception of a handler been left to the caller
notify_handlers_propagating(handlers, event_type, domain_name) ==
    IF first_raising_handler(handlers) = 0
    THEN [invoked |-> [n \in 1..Len(handlers) |-> <<event_type, domain_name, n>>],
          raised  |-> ""]
    ELSE [invoked |-> [n \in 1..first_raising_handler(handlers) |->
                          <<event_type, domain_name, n>>],
          raised  |-> "Exception"]

\* _notify_handlers(event_type, domain_name, info): every handler of the event
\* type is called in the order of its subscription, handlers[n] as the n-th; an
\* Exception it raises is caught and logged and the loop goes on, so nothing
\* is raised to the caller
notify_handlers(handlers, event_type, domain_name) ==
    [invoked |-> [n \in 1..Len(handlers) |-> <<event_type, domain_name, n>>],
     raised  |-> ""]

\* the handler calls of the first n notifications of an operation
RECURSIVE invoked_up_to(_, _)
invoked_up_to(events, n) ==
    IF n = 0 THEN <<>>
    ELSE invoked_up_to(events, n - 1)
             \o notify_handlers(event_handlers[events[n][1]],
                                events[n][1], events[n][2]).invoked

\* what the notifications of an operation raise to it
raised_by(events) ==
    IF \E n \in 1..Len(events) :
           notify_handlers(event_handlers[events[n][1]],
                           events[n][1], events[n][2]).raised # ""
    THEN "Exception"
    ELSE ""

\* a call that returned: its operation, the name it was about, its other
\* arguments, the value returned, the notifications it made and the handler
\* calls they led to
Return(op, name, args, result, events) ==
    [op |-> op, name |-> name, args |-> args, result |-> result,
     raised |-> raised_by(events),
     events |-> events, invoked |-> invoked_up_to(events, Len(events)),
     seen |-> None]

\* a call that raised
Raise(op, name, args, error) ==
    [op |-> op, name |-> name, args |-> args, result |-> None, raised |-> error,
     events |-> <<>>, invoked |-> <<>>, seen |-> None]

\* the call r of register or unregister, its handlers called while
\* self._domains held the records d: seen is the keys a handler finds there
notified_with(r, d) == [r EXCEPT !.seen = keys(d)]

\* on_event(event_type, handler)
on_event(event_type, handler) ==
    /\ IF event_type \notin DOMAIN event_handlers
       THEN /\ event_handlers' = event_handlers
            /\ ret' = Raise("on_event", None, <<event_type, handler>>, "ValueError")
       ELSE /\ event_handlers' =
                   [event_handlers EXCEPT ![event_type] = Append(@, handler)]
            /\ ret' = Return("on_event", None, <<event_type, handler>>, None, <<>>)
    /\ UNCHANGED <<routing, engine, monitor, failure_calls, domains, failures, fallback_chains>>

\* register, had a duplicate name been announced to the handlers as well
register_notifying_duplicates(processor, version, priority, dependencies) ==
    /\ IF is_registered(domain_name_of(processor))
       THEN /\ domains' = domains
            /\ ret' = notified_with(
                          Return("register", domain_name_of(processor),
                                 dependencies, FALSE,
                                 <<<<"register", domain_name_of(processor)>>>>),
                          domains)
       ELSE IF dependencies # <<>> /\ missing(dependencies) # <<>>
       THEN /\ domains' = domains
            /\ ret' = Raise("register", domain_name_of(processor), dependencies,
                            "ValueError")
       ELSE /\ domains' = Append(domains, DomainInfo(processor, version, priority,
                                                     dependencies))
            /\ ret' = notified_with(
                          Return("register", domain_name_of(processor),
                                 dependencies, TRUE,
                                 <<<<"register", domain_name_of(processor)>>>>),
                          Append(domains, DomainInfo(processor, version, priority,
                                                     dependencies)))
    /\ UNCHANGED <<routing, engine, monitor, event_handlers, failure_calls, failures, fallback_chains>>

register(processor, version, priority, dependencies) ==
    LET domain_name == domain_name_of(processor)
        info == DomainInfo(processor, version, priority, dependencies)
    IN  /\ IF is_registered(domain_name)
           THEN /\ domains' = domains
                /\ ret' = Return("register", domain_name, dependencies, FALSE, <<>>)
           ELSE IF dependencies # <<>> /\ missing(dependencies) # <<>>
           THEN /\ domains' = domains
                /\ ret' = Raise("register", domain_name, dependencies, "ValueError")
           ELSE /\ domains' = Append(domains, info)
                /\ ret' = notified_with(
                              Return("register", domain_name, dependencies, TRUE,
                                     <<<<"register", domain_name>>>>),
                              Append(domains, info))
        /\ UNCHANGED <<routing, engine, monitor, event_handlers, failure_calls, failures, fallback_chains>>

\* unregister, had it removed a record whatever depends on it
unregister_ignoring_dependents(domain_name) ==
    /\ IF ~is_registered(domain_name)
       THEN /\ domains' = domains
            /\ ret' = Return("unregister", domain_name, <<>>, FALSE, <<>>)
       ELSE /\ domains' = pop(domains, domain_name)
            /\ ret' = notified_with(
                          Return("unregister", domain_name, <<>>, TRUE,
                                 <<<<"unregister", domain_name>>>>),
                          pop(domains, domain_name))
    /\ UNCHANGED <<routing, engine, monitor, event_handlers, failure_calls, failures, fallback_chains>>

unregister(domain_name) ==
    /\ IF ~is_registered(domain_name)
       THEN /\ domains' = domains
            /\ ret' = Return("unregister", domain_name, <<>>, FALSE, <<>>)
       ELSE IF dependents(domain_name) # <<>>
       THEN /\ domains' = domains
            /\ ret' = Raise("unregister", domain_name, <<>>, "ValueError")
       ELSE /\ domains' = pop(domains, domain_name)
            /\ ret' = notified_with(
                          Return("unregister", domain_name, <<>>, TRUE,
                                 <<<<"unregister", domain_name>>>>),
                          pop(domains, domain_name))
    /\ UNCHANGED <<routing, engine, monitor, event_handlers, failure_calls, failures, fallback_chains>>

\* a lookup that forgets the enabled flag
get_processor_ignoring_enabled(domain_name) ==
    IF contains(domains, domain_name)
    THEN item(domains, domain_name).processor
    ELSE None

\* info.processor if info and info.enabled else None
get_processor(domain_name) ==
    IF contains(domains, domain_name) /\ item(domains, domain_name).enabled
    THEN item(domains, domain_name).processor
    ELSE None

get(domain_name) ==
    /\ ret' = Return("get", domain_name, <<>>, get_processor(domain_name), <<>>)
    /\ UNCHANGED <<routing, engine, monitor, event_handlers, failure_calls, domains, failures, fallback_chains>>

\* enable, had it turned the flag over instead of setting it
enable_toggling(domain_name) ==
    /\ IF ~is_registered(domain_name)
       THEN /\ domains' = domains
            /\ ret' = Return("enable", domain_name, <<>>, FALSE, <<>>)
       ELSE /\ domains' = set_field(domains, domain_name, "enabled",
                                    ~item(domains, domain_name).enabled)
            /\ ret' = Return("enable", domain_name, <<>>, TRUE, <<>>)
    /\ UNCHANGED <<routing, engine, monitor, event_handlers, failure_calls, failures, fallback_chains>>

enable(domain_name) ==
    /\ IF ~is_registered(domain_name)
       THEN /\ domains' = domains
            /\ ret' = Return("enable", domain_name, <<>>, FALSE, <<>>)
       ELSE /\ domains' = set_field(domains, domain_name, "enabled", TRUE)
            /\ ret' = Return("enable", domain_name, <<>>, TRUE, <<>>)
    /\ UNCHANGED <<routing, engine, monitor, event_handlers, failure_calls, failures, fallback_chains>>

disable(domain_name) ==
    /\ IF ~is_registered(domain_name)
       THEN /\ domains' = domains
            /\ ret' = Return("disable", domain_name, <<>>, FALSE, <<>>)
       ELSE /\ domains' = set_field(domains, domain_name, "enabled", FALSE)
            /\ ret' = Return("disable", domain_name, <<>>, TRUE, <<>>)
    /\ UNCHANGED <<routing, engine, monitor, event_handlers, failure_calls, failures, fallback_chains>>

\* the outcomes of a health check's probe: the processor has no health_check
\* ("none"), or its health_check returns true, returns false or raises
Probes == {"none", "true", "false", "raise"}

\* datetime.utcnow(), where only "set or None" is read
Timestamp == "utcnow"

\* the update of a health check, had it left the time of the check unset
checked_without_time(d, domain_name, health) ==
    set_field(d, domain_name, "health", health)

\* info.health = health; info.last_health_check = datetime.utcnow()
checked(d, domain_name, health) ==
    set_field(set_field(d, domain_name, "health", health),
              domain_name, "last_health_check", Timestamp)

\* new_health of a registered processor: HEALTHY without a probe or when the
\* probe answers true, UNHEALTHY when it answers false or raises
new_health_of(probe) ==
    IF probe \in {"false", "raise"} THEN UNHEALTHY ELSE HEALTHY

\* self._domains after health_check(domain_name)
health_checked(d, domain_name, probe) ==
    IF ~contains(d, domain_name) THEN d
    ELSE checked(d, domain_name, new_health_of(probe))

\* the value health_check(domain_name) returns
health_returned(d, domain_name, probe) ==
    IF ~contains(d, domain_name) THEN UNKNOWN ELSE new_health_of(probe)

\* the notifications of health_check(domain_name): one when the probe has not
\* raised and old_health != new_health
health_notified(d, domain_name, probe) ==
    IF /\ contains(d, domain_name)
       /\ probe # "raise"
       /\ item(d, domain_name).health # new_health_of(probe)
    THEN <<<<"health_change", domain_name>>>>
    ELSE <<>>

\* health_check, had the exception of a raising probe been left to the caller
health_check_propagating(domain_name, probe) ==
    /\ IF ~contains(domains, domain_name)
       THEN /\ domains' = domains
            /\ ret' = Return("health_check", domain_name, <<probe>>, UNKNOWN, <<>>)
       ELSE IF probe = "raise"
       THEN /\ domains' = domains
            /\ ret' = Raise("health_check", domain_name, <<probe>>, "Exception")
       ELSE /\ domains' = checked(domains, domain_name,
                                  IF probe = "false" THEN UNHEALTHY ELSE HEALTHY)
            /\ ret' = Return("health_check", domain_name, <<probe>>,
                             IF probe = "false" THEN UNHEALTHY ELSE HEALTHY,
                             IF item(domains, domain_name).health
                                    # (IF probe = "false" THEN UNHEALTHY ELSE HEALTHY)
                             THEN <<<<"health_change", domain_name>>>>
                             ELSE <<>>)
    /\ UNCHANGED <<routing, engine, monitor, event_handlers, failure_calls, failures, fallback_chains>>

\* health_check, had the notification not been kept for a changed status
health_check_always_notifying(domain_name, probe) ==
    /\ IF ~contains(domains, domain_name)
       THEN /\ domains' = domains
            /\ ret' = Return("health_check", domain_name, <<probe>>, UNKNOWN, <<>>)
       ELSE IF probe = "raise"
       THEN /\ domains' = checked(domains, domain_name, UNHEALTHY)
            /\ ret' = Return("health_check", domain_name, <<probe>>, UNHEALTHY, <<>>)
       ELSE /\ domains' = checked(domains, domain_name,
                                  IF probe = "false" THEN UNHEALTHY ELSE HEALTHY)
            /\ ret' = Return("health_check", domain_name, <<probe>>,
                             IF probe = "false" THEN UNHEALTHY ELSE HEALTHY,
                             <<<<"health_change", domain_name>>>>)
    /\ UNCHANGED <<routing, engine, monitor, event_handlers, failure_calls, failures, fallback_chains>>

health_check(domain_name, probe) ==
    /\ domains' = health_checked(domains, domain_name, probe)
    /\ ret' = Return("health_check", domain_name, <<probe>>,
                     health_returned(domains, domain_name, probe),
                     health_notified(domains, domain_name, probe))
    /\ UNCHANGED <<routing, engine, monitor, event_handlers, failure_calls, failures, fallback_chains>>

\* the records after the first n iterations of
\* "for domain_name in self._domains: await self.health_check(domain_name)";
\* names are the keys of the dict, probes the answer of each processor's probe
RECURSIVE checked_up_to(_, _, _, _)
checked_up_to(d, names, probes, n) ==
    IF n = 0 THEN d
    ELSE health_checked(checked_up_to(d, names, probes, n - 1),
                        names[n], probes[names[n]])

\* results[domain_name] of every iteration, a dict in insertion order
health_results(d, names, probes) ==
    [n \in 1..Len(names) |->
        <<names[n], health_returned(checked_up_to(d, names, probes, n - 1),
                                    names[n], probes[names[n]])>>]

\* the notifications of the first n iterations
RECURSIVE notified_up_to(_, _, _, _)
notified_up_to(d, names, probes, n) ==
    IF n = 0 THEN <<>>
    ELSE notified_up_to(d, names, probes, n - 1)
             \o health_notified(checked_up_to(d, names, probes, n - 1),
                                names[n], probes[names[n]])

\* the first iteration whose probe raises, 0 when none does
first_raising(names, probes) ==
    IF \E n \in 1..Len(names) : probes[names[n]] = "raise"
    THEN CHOOSE n \in 1..Len(names) :
             /\ probes[names[n]] = "raise"
             /\ \A m \in 1..(n - 1) : probes[names[m]] # "raise"
    ELSE 0

\* health_check_all, had the batch stopped at the first probe that raises
health_check_all_aborting(probes) ==
    /\ IF first_raising(keys(domains), probes) = 0
       THEN /\ domains' = checked_up_to(domains, keys(domains), probes, Len(domains))
            /\ ret' = Return("health_check_all", None, <<probes>>,
                             health_results(domains, keys(domains), probes),
                             notified_up_to(domains, keys(domains), probes,
                                            Len(domains)))
       ELSE /\ domains' = checked_up_to(domains, keys(domains), probes,
                                        first_raising(keys(domains), probes) - 1)
            /\ ret' = Raise("health_check_all", None, <<probes>>, "Exception")
    /\ UNCHANGED <<routing, engine, monitor, event_handlers, failure_calls, failures, fallback_chains>>

health_check_all(probes) ==
    /\ domains' = checked_up_to(domains, keys(domains), probes, Len(domains))
    /\ ret' = Return("health_check_all", None, <<probes>>,
                     health_results(domains, keys(domains), probes),
                     notified_up_to(domains, keys(domains), probes, Len(domains)))
    /\ UNCHANGED <<routing, engine, monitor, event_handlers, failure_calls, failures, fallback_chains>>

\* The monitoring task. pc is "none" while self._health_check_task is None,
\* "ready" for a task created and not yet run, then the point where monitor()
\* is suspended: "probing" (await processor.health_check() of the record at
\* index, in a traversal of a dict that had size records), "sleeping" (await
\* asyncio.sleep(interval)), "delay" (await asyncio.sleep(5) after an error);
\* "exited" after the break and "cancelled" when the CancelledError has left
\* the coroutine. cancel: task.cancel() was called and the CancelledError is not
\* yet thrown into the coroutine.
Task(pc, cancel, index, size) ==
    [pc |-> pc, cancel |-> cancel, index |-> index, size |-> size]

\* self._health_check_task = None
NoTask == Task("none", FALSE, 0, 0)

\* task.done()
Done == {"exited", "cancelled"}

\* the outcomes of a probe that is awaited
AwaitedProbes == {"true", "false", "raise"}

\* what leaves health_check of an exception thrown at its await, had its handler
\* caught the cancellation as well
health_check_lets_out_nothing(exception) == ""

\* what leaves health_check of an exception thrown at its await: "except
\* Exception" catches the Exception of a probe, not the CancelledError, which
\* is a BaseException
health_check_lets_out(exception) ==
    IF exception = "CancelledError" THEN "CancelledError" ELSE ""

\* where an exception raised in the try block leaves monitor(), had the loop
\* ended at an error
monitor_after_ending_at_error(exception) == "exited"

\* where an exception raised in the try block leaves monitor(): the break of
\* "except asyncio.CancelledError", the sleep(5) of "except Exception"
monitor_after(exception) ==
    IF exception = "CancelledError" THEN "exited" ELSE "delay"

\* monitor() entering health_check_all: the traversal of d begins, its first
\* record is probed; of an empty dict the round is over and the sleep begins
begin_round(d) ==
    IF Len(d) = 0 THEN Task("sleeping", FALSE, 0, 0)
    ELSE Task("probing", FALSE, 1, Len(d))

\* the traversal going on after the health_check of the record at index: a dict
\* that changed size raises RuntimeError, which health_check_all lets out
next_probe(d, index, size) ==
    IF Len(d) # size THEN Task(monitor_after("RuntimeError"), FALSE, 0, 0)
    ELSE IF index < size THEN Task("probing", FALSE, index + 1, size)
    ELSE Task("sleeping", FALSE, 0, 0)

\* start_health_monitoring, had it made a new task whatever task there is
start_health_monitoring_unguarded ==
    /\ monitor' = Task("ready", FALSE, 0, 0)
    /\ ret' = Return("start_health_monitoring", None, <<>>, None, <<>>)
    /\ UNCHANGED <<routing, engine, event_handlers, failure_calls, domains, failures, fallback_chains>>

\* start_health_monitoring(interval)
start_health_monitoring ==
    /\ monitor' = IF monitor.pc # "none" /\ monitor.pc \notin Done
                  THEN monitor
                  ELSE Task("ready", FALSE, 0, 0)
    /\ ret' = Return("start_health_monitoring", None, <<>>, None, <<>>)
    /\ UNCHANGED <<routing, engine, event_handlers, failure_calls, domains, failures, fallback_chains>>

\* stop_health_monitoring(): task.cancel(), without effect on a task that is done
stop_health_monitoring ==
    /\ monitor' = IF monitor.pc = "none" \/ monitor.pc \in Done
                  THEN monitor
                  ELSE [monitor EXCEPT !.cancel = TRUE]
    /\ ret' = Return("stop_health_monitoring", None, <<>>, None, <<>>)
    /\ UNCHANGED <<routing, engine, event_handlers, failure_calls, domains, failures, fallback_chains>>

\* the event loop throws the CancelledError into the task where it is suspended
monitor_cancelled ==
    /\ monitor.pc \in {"ready", "probing", "sleeping", "delay"}
    /\ monitor.cancel
    /\ IF monitor.pc = "probing"
       THEN IF health_check_lets_out("CancelledError") = ""
            THEN /\ domains' = checked(domains, domains[monitor.index].name,
                                        UNHEALTHY)
                 /\ monitor' = next_probe(domains, monitor.index, monitor.size)
            ELSE /\ domains' = domains
                 /\ monitor' = Task(monitor_after(
                                        health_check_lets_out("CancelledError")),
                                    FALSE, 0, 0)
       ELSE /\ domains' = domains
            /\ monitor' = Task(IF monitor.pc = "sleeping"
                               THEN monitor_after("CancelledError")
                               ELSE "cancelled",
                               FALSE, 0, 0)
    /\ ret' = Return("monitor", None, <<monitor.pc, "CancelledError">>,
                     monitor'.pc, <<>>)
    /\ UNCHANGED <<routing, engine, event_handlers, failure_calls, failures, fallback_chains>>

\* the task begins, or wakes from a sleep, and enters the next round
monitor_polls ==
    /\ monitor.pc \in {"ready", "sleeping", "delay"}
    /\ ~monitor.cancel
    /\ monitor' = begin_round(domains)
    /\ ret' = Return("monitor", None, <<monitor.pc, "">>, monitor'.pc, <<>>)
    /\ UNCHANGED <<routing, engine, event_handlers, failure_calls, domains, failures, fallback_chains>>

\* the probe awaited answers or raises: health_check ends and the traversal
\* goes on
monitor_probed(probe) ==
    /\ monitor.pc = "probing"
    /\ ~monitor.cancel
    /\ domains' = health_checked(domains, domains[monitor.index].name, probe)
    /\ monitor' = next_probe(domains, monitor.index, monitor.size)
    /\ ret' = Return("monitor", domains[monitor.index].name,
                     <<monitor.pc, "", probe>>, monitor'.pc,
                     health_notified(domains, domains[monitor.index].name, probe))
    /\ UNCHANGED <<routing, engine, event_handlers, failure_calls, failures, fallback_chains>>

\* a step of the monitoring task
monitor_step ==
    \/ monitor_cancelled
    \/ monitor_polls
    \/ \E probe \in AwaitedProbes : monitor_probed(probe)

\* [(name, info) for name, info in self._domains.items()
\*  if not enabled_only or info.enabled]
priority_items(enabled_only) ==
    SelectSeq(domains, LAMBDA e : ~enabled_only \/ e.enabled)

\* the place of items[i], had the sort put equal priorities in reverse order
priority_place_ties_reversed(items, i) ==
    1 + Cardinality({j \in 1..Len(items) :
                        \/ items[j].priority > items[i].priority
                        \/ j > i /\ items[j].priority = items[i].priority})

\* sorted(items, key=lambda x: x[1].priority, reverse=True): stable, highest
\* priority first.  The place of items[i] in the sorted list: after every
\* higher priority, and after the equal priorities that stood before it.
priority_place(items, i) ==
    1 + Cardinality({j \in 1..Len(items) :
                        \/ items[j].priority > items[i].priority
                        \/ j < i /\ items[j].priority = items[i].priority})

sorted_by_priority(items) ==
    [k \in 1..Len(items) |->
        items[CHOOSE i \in 1..Len(items) : priority_place(items, i) = k]]

list_by_priority(enabled_only) ==
    /\ ret' = Return("list_by_priority", None, <<enabled_only>>,
                     keys(sorted_by_priority(priority_items(enabled_only))), <<>>)
    /\ UNCHANGED <<routing, engine, monitor, event_handlers, failure_calls, domains, failures, fallback_chains>>

(***************************************************************************)
(* DefaultRoutingStrategy                                                  *)
(***************************************************************************)
\* the outcomes of a processor's can_handle(input, context)
Outcomes == {"yes", "no", "raise"}

\* try: can_handle = await processor.can_handle(...) except Exception: False
can_handle_of(outcome) == outcome = "yes"

\* what score raises, had the exception of can_handle been left to the caller
score_raises_what_can_handle_raises(outcome) ==
    IF outcome = "raise" THEN "Exception" ELSE ""

\* what score raises to its caller: nothing, the Exception of can_handle is
\* caught and logged
score_raises(outcome) == ""

\* the base score, had it not looked at can_handle
base_score_always_half(can_handle) == Literal(5, 10)

\* 0.5 if can_handle else 0.0
base_score(can_handle) == IF can_handle THEN Literal(5, 10) ELSE FromInt(0)

\* the bonus, had the cap at 0.3 been left out
priority_bonus_uncapped(priority) ==
    FMul(FDivInt(FromInt(priority), 10), Literal(3, 10))

\* min(priority / 10.0 * 0.3, 0.3)
priority_bonus(priority) ==
    FMin(FMul(FDivInt(FromInt(priority), 10), Literal(3, 10)), Literal(3, 10))

\* the if/elif chain, had the Unknown branch been given the Degraded penalty
health_penalty_unknown_as_degraded(health) ==
    CASE health = DEGRADED  -> Literal(1, 10)
      [] health = UNHEALTHY -> Literal(2, 10)
      [] health = UNKNOWN   -> Literal(1, 10)
      [] OTHER              -> FromInt(0)

\* the if/elif chain over health
health_penalty(health) ==
    CASE health = DEGRADED  -> Literal(1, 10)
      [] health = UNHEALTHY -> Literal(2, 10)
      [] health = UNKNOWN   -> Literal(5, 100)
      [] OTHER              -> FromInt(0)

\* score = base; score += priority_bonus; score -= health_penalty;
\* score = max(0.0, min(1.0, score))
final_score(can_handle, priority, health) ==
    FMax(FromInt(0),
         FMin(FromInt(1),
              FSub(FAdd(base_score(can_handle), priority_bonus(priority)),
                   health_penalty(health))))

\* The priorities any caller of the model passes, and the scores of all of them,
\* computed once.
ScorePriorities == -20..15

ScoreTable ==
    [c \in BOOLEAN, p \in ScorePriorities, h \in DomainHealth |->
        [score          |-> final_score(c, p, h),
         priority_bonus |-> priority_bonus(p),
         health_penalty |-> health_penalty(h)]]

\* DefaultRoutingStrategy.score: the RoutingScore of a processor whose can_handle
\* ends in outcome
RoutingScore(domain_name, can_handle, priority, health, computed) ==
    [domain_name |-> domain_name,
     score       |-> computed.score,
     can_handle  |-> can_handle,
     priority    |-> priority,
     health      |-> health,
     metadata    |-> [priority_bonus |-> computed.priority_bonus,
                      health_penalty |-> computed.health_penalty]]

score(domain_name, outcome, priority, health) ==
    RoutingScore(domain_name, can_handle_of(outcome), priority, health,
                 ScoreTable[can_handle_of(outcome), priority, health])

\* a direct call of the strategy
score_call(domain_name, outcome, priority, health) ==
    /\ ret' = Return("score", domain_name, <<outcome, priority, health>>,
                     score(domain_name, outcome, priority, health), <<>>)
    /\ UNCHANGED <<routing, engine, monitor, event_handlers, failure_calls, domains, failures, fallback_chains>>

(***************************************************************************)
(* DomainRouter                                                            *)
(***************************************************************************)
\* self._circuit_breaker_threshold
circuit_breaker_threshold == 5

\* self._circuit_breaker_failures.get(domain_name, 0)
failure_count(domain_name) ==
    IF domain_name \in DOMAIN failures THEN failures[domain_name] ELSE 0

\* the test, had it asked for more failures than the threshold
is_circuit_broken_above_threshold(domain_name) ==
    failure_count(domain_name) > circuit_breaker_threshold

is_circuit_broken(domain_name) ==
    failure_count(domain_name) >= circuit_breaker_threshold

record_failure(domain_name) ==
    /\ failures' = [n \in DOMAIN failures \cup {domain_name} |->
                        IF n = domain_name THEN failure_count(domain_name) + 1
                                           ELSE failures[n]]
    /\ ret' = Return("record_failure", domain_name, <<>>, None, <<>>)
    /\ failure_calls' = [failure_calls EXCEPT ![domain_name] = @ + 1]
    /\ UNCHANGED <<routing, engine, monitor, event_handlers, domains, fallback_chains>>

\* the counters, had the deletion of the name's key been left out
without_deleting(f, domain_name) == f

\* del self._circuit_breaker_failures[domain_name], when the key is there
without(f, domain_name) == [n \in DOMAIN f \ {domain_name} |-> f[n]]

\* record_success, had it left the counter as it was
record_success_keeping_count(domain_name) ==
    /\ failures' = failures
    /\ ret' = Return("record_success", domain_name, <<>>, None, <<>>)
    /\ failure_calls' = [failure_calls EXCEPT ![domain_name] = 0]
    /\ UNCHANGED <<routing, engine, monitor, event_handlers, domains, fallback_chains>>

record_success(domain_name) ==
    /\ failures' = without(failures, domain_name)
    /\ ret' = Return("record_success", domain_name, <<>>, None, <<>>)
    /\ failure_calls' = [failure_calls EXCEPT ![domain_name] = 0]
    /\ UNCHANGED <<routing, engine, monitor, event_handlers, domains, fallback_chains>>

reset_circuit_breaker(domain_name) ==
    /\ failures' = without(failures, domain_name)
    /\ ret' = Return("reset_circuit_breaker", domain_name, <<>>, None, <<>>)
    /\ failure_calls' = [failure_calls EXCEPT ![domain_name] = 0]
    /\ UNCHANGED <<routing, engine, monitor, event_handlers, domains, fallback_chains>>

\* DomainRegistry.list_domains
list_domains(enabled_only) ==
    IF enabled_only
    THEN keys(SelectSeq(domains, LAMBDA e : e.enabled))
    ELSE keys(domains)

\* name in exclude
in_list(list, name) == \E i \in 1..Len(list) : list[i] = name

\* the candidates, had the exclude list been left out of the filter
candidates_ignoring_exclude(exclude) ==
    SelectSeq(list_domains(TRUE), LAMBDA n : ~is_circuit_broken(n))

\* [name for name in domain_names
\*  if name not in exclude and not self._is_circuit_broken(name)]
candidates(exclude) ==
    SelectSeq(list_domains(TRUE),
              LAMBDA n : ~in_list(exclude, n) /\ ~is_circuit_broken(n))

\* the answer of a processor's can_handle to an input: the input is known to
\* the model by the answer each processor gives to it
can_handle_outcome(processor, input) == input[processor]

\* score = self.strategy.score(domain_name, info.processor, input_data, ...)
score_of(info, input) ==
    score(info.name, can_handle_outcome(info.processor, input),
          info.priority, info.health)

\* the loop of route over domain_names: one RoutingScore for each
score_all(domain_names, input) ==
    [i \in 1..Len(domain_names) |->
        score_of(item(domains, domain_names[i]), input)]

\* the place of scores[i], had the sort put equal scores in reverse order
sorted_place_ties_reversed(scores, i) ==
    1 + Cardinality({j \in 1..Len(scores) :
                        \/ FLess(scores[i].score, scores[j].score)
                        \/ j > i /\ ~FLess(scores[j].score, scores[i].score)})

\* list.sort(key=lambda x: x.score, reverse=True): stable, highest score first.
\* The place of scores[i] in the sorted list: after every higher score, and
\* after the equal scores that stood before it.
sorted_place(scores, i) ==
    1 + Cardinality({j \in 1..Len(scores) :
                        \/ FLess(scores[i].score, scores[j].score)
                        \/ j < i /\ ~FLess(scores[j].score, scores[i].score)})

sort_by_score(scores) ==
    [k \in 1..Len(scores) |->
        scores[CHOOSE i \in 1..Len(scores) : sorted_place(scores, i) = k]]

\* route's None
NoRoute == <<>>

\* (best.domain_name, processor, best)
route_tuple(best) == <<best.domain_name, get_processor(best.domain_name), best>>

\* the first of valid_scores taken as they stand, without the sort
route_best_unsorted(valid_scores) ==
    IF valid_scores = <<>> THEN NoRoute
    ELSE route_tuple(valid_scores[1])

\* valid_scores sorted, and the first of them taken
route_best(valid_scores) ==
    IF valid_scores = <<>> THEN NoRoute
    ELSE route_tuple(sort_by_score(valid_scores)[1])

\* what route returns: None, or (domain_name, processor, score)
route_result(input, exclude) ==
    IF candidates(exclude) = <<>> THEN NoRoute
    ELSE route_best(SelectSeq(score_all(candidates(exclude), input),
                              LAMBDA s : s.can_handle))

\* what the scoring loop of route and route_all raises over domain_names: the
\* first exception a call of strategy.score raises, as neither has a handler
scoring_raises(domain_names, input) ==
    IF \E i \in 1..Len(domain_names) :
           score_raises(can_handle_outcome(item(domains, domain_names[i]).processor,
                                           input)) # ""
    THEN "Exception"
    ELSE ""

\* a call that has returned result unless error names an exception raised
Outcome(op, args, result, error) ==
    IF error # "" THEN Raise(op, None, args, error)
    ELSE Return(op, None, args, result, <<>>)

\* route, had it recorded a success for the domain it selects
route_recording_success(input, exclude) ==
    /\ ret' = Return("route", None, <<input, exclude>>,
                     route_result(input, exclude), <<>>)
    /\ failures' = IF route_result(input, exclude) = NoRoute THEN failures
                   ELSE without(failures, route_result(input, exclude)[1])
    /\ UNCHANGED <<routing, engine, monitor, event_handlers, failure_calls, domains, fallback_chains>>

route(input, exclude) ==
    /\ ret' = Outcome("route", <<input, exclude>>, route_result(input, exclude),
                      scoring_raises(candidates(exclude), input))
    /\ UNCHANGED <<routing, engine, monitor, event_handlers, failure_calls, domains, failures, fallback_chains>>

\* self._fallback_chains[primary] = fallbacks
set_fallback_chain(primary, fallbacks) ==
    /\ fallback_chains' = [n \in DOMAIN fallback_chains \cup {primary} |->
                              IF n = primary THEN fallbacks ELSE fallback_chains[n]]
    /\ ret' = Return("set_fallback_chain", primary, fallbacks, None, <<>>)
    /\ UNCHANGED <<routing, engine, monitor, event_handlers, failure_calls, domains, failures>>

\* self._fallback_chains.get(domain_name, [])
get_fallback_chain(domain_name) ==
    IF domain_name \in DOMAIN fallback_chains
    THEN fallback_chains[domain_name] ELSE <<>>

\* the result of the primary routing, had a chain of fallbacks replaced the
\* processor by the first fallback that is registered
fallback_tried(result) ==
    IF result = NoRoute THEN NoRoute
    ELSE IF \E i \in 1..Len(get_fallback_chain(result[1])) :
                contains(domains, get_fallback_chain(result[1])[i])
    THEN <<get_fallback_chain(result[1])[1],
           item(domains, get_fallback_chain(result[1])[1]).processor,
           result[3]>>
    ELSE result

\* what route_with_fallback makes of the result of the primary routing: the
\* chain of fallbacks is read and logged, the result returned as it is
fallback_logged(result) ==
    IF result # NoRoute
    THEN (IF get_fallback_chain(result[1]) # <<>> THEN result ELSE result)
    ELSE NoRoute

\* result = await self.route(input_data, context)
route_with_fallback_result(input) == fallback_logged(route_result(input, <<>>))

route_with_fallback(input) ==
    /\ ret' = Outcome("route_with_fallback", <<input>>,
                      route_with_fallback_result(input),
                      scoring_raises(candidates(<<>>), input))
    /\ UNCHANGED <<routing, engine, monitor, event_handlers, failure_calls, domains, failures, fallback_chains>>

\* [(s.domain_name, self.registry.get_info(s.domain_name).processor, s) ...]
route_all_tuples(sorted) ==
    [i \in 1..Len(sorted) |->
        <<sorted[i].domain_name,
          item(domains, sorted[i].domain_name).processor,
          sorted[i]>>]

\* what route_all returns, had the circuit breaker not been asked
route_all_result_with_broken(input) ==
    route_all_tuples(sort_by_score(
        SelectSeq(score_all(list_domains(TRUE), input),
                  LAMBDA s : s.can_handle)))

\* what route_all returns: (domain_name, processor, score) of every candidate
\* that can handle the input, highest score first
route_all_result(input) ==
    route_all_tuples(sort_by_score(
        SelectSeq(score_all(SelectSeq(list_domains(TRUE),
                                      LAMBDA n : ~is_circuit_broken(n)),
                            input),
                  LAMBDA s : s.can_handle)))

route_all(input) ==
    /\ ret' = Outcome("route_all", <<input>>, route_all_result(input),
                      scoring_raises(SelectSeq(list_domains(TRUE),
                                               LAMBDA n : ~is_circuit_broken(n)),
                                     input))
    /\ UNCHANGED <<routing, engine, monitor, event_handlers, failure_calls, domains, failures, fallback_chains>>

\* A route call by its suspension points. pc is "idle" while no route call is
\* suspended and "scoring" while one awaits the can_handle of names[index]
\* inside strategy.score; input and exclude are its arguments, names its
\* domain_names, scores the RoutingScores appended so far, and info.processor,
\* info.priority and info.health the values read from the record of
\* names[index] and passed to strategy.score before the await.
Routing(pc, input, exclude, names, index, scores, info) ==
    [pc |-> pc, input |-> input, exclude |-> exclude, names |-> names,
     index |-> index, scores |-> scores, info |-> info]

\* no route call is suspended
NoRouting == Routing("idle", <<>>, <<>>, <<>>, 0, <<>>, <<>>)

\* the loop of route from names[index] on: the first name that get_info still
\* finds, 0 when the names are used up ("if not info: continue")
next_with_info(d, names, index) ==
    IF \E j \in index..Len(names) : contains(d, names[j])
    THEN CHOOSE j \in index..Len(names) :
             /\ contains(d, names[j])
             /\ \A k \in index..(j - 1) : ~contains(d, names[k])
    ELSE 0

\* route going on from names[index] with scores: it calls strategy.score for
\* the next name that has a record and is suspended there, or leaves the loop
\* and returns the best of the scores that can handle, with the processor that
\* registry.get finds for it now
route_from(input, exclude, names, index, scores) ==
    IF index = 0
    THEN /\ routing' = NoRouting
         /\ ret' = Return("route", None, <<input, exclude>>,
                          route_best(SelectSeq(scores, LAMBDA s : s.can_handle)),
                          <<>>)
    ELSE /\ routing' = Routing("scoring", input, exclude, names, index, scores,
                               item(domains, names[index]))
         /\ ret' = Return("await", names[index], <<"route", input, exclude>>,
                          None, <<>>)

\* route(input_data, context, exclude) called: it returns None when no
\* candidate is left by the filter, and is suspended at the first can_handle
\* otherwise
route_called(input, exclude) ==
    /\ routing.pc = "idle"
    /\ IF candidates(exclude) = <<>>
       THEN /\ routing' = NoRouting
            /\ ret' = Return("route", None, <<input, exclude>>, NoRoute, <<>>)
       ELSE route_from(input, exclude, candidates(exclude),
                       next_with_info(domains, candidates(exclude), 1), <<>>)
    /\ UNCHANGED <<engine, monitor, event_handlers, failure_calls, domains,
                   failures, fallback_chains>>

\* the can_handle awaited answers: strategy.score returns the RoutingScore,
\* made of the values passed to it, and the loop goes on
route_resumed ==
    /\ routing.pc = "scoring"
    /\ route_from(routing.input, routing.exclude, routing.names,
                  next_with_info(domains, routing.names, routing.index + 1),
                  Append(routing.scores,
                         score(routing.info.name,
                               can_handle_outcome(routing.info.processor,
                                                  routing.input),
                               routing.info.priority, routing.info.health)))
    /\ UNCHANGED <<engine, monitor, event_handlers, failure_calls, domains,
                   failures, fallback_chains>>

(***************************************************************************)
(* CognitiveEngine                                                         *)
(***************************************************************************)
\* ProcessingStage
RECEIVED == "received"

ANALYZING == "analyzing"

SYNTHESIZING == "synthesizing"

COMPLETED == "completed"

FAILED == "failed"

\* the engine: use_registry, whether a memory_store was given, and
\* self.domain_processors; constructed is false until __init__ has run
Engine(constructed, use_registry, memory_store, domain_processors) ==
    [constructed       |-> constructed,
     use_registry      |-> use_registry,
     memory_store      |-> memory_store,
     domain_processors |-> domain_processors]

NoEngine == Engine(FALSE, FALSE, FALSE, <<>>)

\* CognitiveEngine(memory_store=..., use_registry=...): in registry mode the
\* engine makes its own DomainRegistry and DomainRouter, which are new
CognitiveEngine(use_registry, memory_store) ==
    /\ ~engine.constructed
    /\ engine' = Engine(TRUE, use_registry, memory_store, <<>>)
    /\ ret' = Return("CognitiveEngine", None, <<use_registry, memory_store>>,
                     None, <<>>)
    /\ UNCHANGED <<routing, monitor, event_handlers, failure_calls, domains, failures,
                   fallback_chains>>

\* register_domain_processor(processor, priority): registry.register in
\* registry mode, self.domain_processors.append(processor) in legacy mode
register_domain_processor(processor, priority) ==
    /\ engine.constructed
    /\ IF engine.use_registry
       THEN register(processor, DefaultVersion, priority, <<>>)
       ELSE /\ engine' = [engine EXCEPT !.domain_processors = Append(@, processor)]
            /\ ret' = Return("register_domain_processor",
                             domain_name_of(processor), <<priority>>, None, <<>>)
            /\ UNCHANGED <<routing, monitor, event_handlers, failure_calls, domains,
                           failures, fallback_chains>>

\* what _select_domain_processor gives: the processor or None, the name the
\* router selected, and the exception it raises, if any
Selection(processor, domain_name, error) ==
    [processor |-> processor, domain_name |-> domain_name, error |-> error]

\* the selection in registry mode, had a route without result been an error
select_by_router_raising_on_none(result, error) ==
    IF error # "" THEN Selection(None, None, error)
    ELSE IF result = NoRoute THEN Selection(None, None, "Exception")
    ELSE Selection(result[2], result[1], "")

\* registry mode: result = await self._router.route(input_data, context)
select_by_router(result, error) ==
    IF error # "" THEN Selection(None, None, error)
    ELSE IF result = NoRoute THEN Selection(None, None, "")
    ELSE Selection(result[2], result[1], "")

\* the first processor of the list that answers the input with the outcome,
\* Len + 1 when none does
first_answering(processors, input, outcome) ==
    IF \E i \in 1..Len(processors) : input[processors[i]] = outcome
    THEN CHOOSE i \in 1..Len(processors) :
             /\ input[processors[i]] = outcome
             /\ \A j \in 1..(i - 1) : input[processors[j]] # outcome
    ELSE Len(processors) + 1

\* legacy mode: the first processor whose can_handle is true; a can_handle that
\* raises before one is found raises out of the loop
select_by_iteration(processors, input) ==
    IF first_answering(processors, input, "raise")
           < first_answering(processors, input, "yes")
    THEN Selection(None, None, "Exception")
    ELSE IF first_answering(processors, input, "yes") <= Len(processors)
    THEN Selection(processors[first_answering(processors, input, "yes")],
                   None, "")
    ELSE Selection(None, None, "")

\* _select_domain_processor(input_data, context)
select_domain_processor(input) ==
    IF engine.use_registry
    THEN select_by_router(route_result(input, <<>>),
                          scoring_raises(candidates(<<>>), input))
    ELSE select_by_iteration(engine.domain_processors, input)

\* the stage of the context while a step runs, had the stage been set after the
\* step instead of before it
stage_during_set_late(step) ==
    CASE step = "validate"   -> None
      [] step = "route"      -> RECEIVED
      [] step = "analyze"    -> RECEIVED
      [] step = "store"      -> ANALYZING
      [] step = "synthesize" -> ANALYZING

\* the stage of the context while a step of process runs: there is no context
\* yet when the input is validated
stage_during(step) ==
    CASE step = "validate"   -> None
      [] step = "route"      -> RECEIVED
      [] step = "analyze"    -> ANALYZING
      [] step = "store"      -> ANALYZING
      [] step = "synthesize" -> SYNTHESIZING

\* a step of process: what is called, by which processor ("default" for the
\* engine's own analysis and synthesis, None where no processor is concerned),
\* the stage of the context at the call, and what the call raises
Step(step, by, raises) ==
    [step |-> step, by |-> by, stage |-> stage_during(step), raises |-> raises]

\* the processor's own analyze or synthesize may raise, the default one does not
raised_by_processor(processor, outcome) ==
    IF processor # None /\ outcome = "raise" THEN "Exception" ELSE ""

\* who analyses and synthesizes
acting(processor) == IF processor = None THEN "default" ELSE processor

\* the calls process makes in the order of its statements, were none to raise
process_steps(valid, selection, memory_store, analyze, store, synthesize) ==
    <<Step("validate", None, IF valid THEN "" ELSE "ValueError"),
      Step("route", None, selection.error),
      Step("analyze", acting(selection.processor),
           raised_by_processor(selection.processor, analyze))>>
    \o (IF memory_store
        THEN <<Step("store", None, IF store = "raise" THEN "Exception" ELSE "")>>
        ELSE <<>>)
    \o <<Step("synthesize", acting(selection.processor),
              raised_by_processor(selection.processor, synthesize))>>

\* the first step that raises, 0 when none does
first_raising_step(steps) ==
    IF \E i \in 1..Len(steps) : steps[i].raises # ""
    THEN CHOOSE i \in 1..Len(steps) :
             /\ steps[i].raises # ""
             /\ \A j \in 1..(i - 1) : steps[j].raises = ""
    ELSE 0

\* the Response: the one of the processor, or the one ResponseGenerator.generate
\* makes, whose metadata hold context.domain and context.stage.value at the call
Response(selection) ==
    IF selection.processor # None
    THEN [by |-> selection.processor]
    ELSE [by |-> "default",
          metadata |-> [domain |-> None, stage |-> stage_during("synthesize")]]

\* process as its caller and its collaborators see it: the calls made up to the
\* first that raises (k, 0 when none), the stage and the domain of the context
\* at the end (None when no context was made), the response returned
process_run(steps, k, selection) ==
    [trace    |-> IF k = 0 THEN steps ELSE SubSeq(steps, 1, k),
     stage    |-> IF k = 1 THEN None ELSE IF k = 0 THEN COMPLETED ELSE FAILED,
     domain   |-> IF (k = 0 \/ k > 2) /\ selection.processor # None
                  THEN domain_name_of(selection.processor) ELSE None,
     response |-> IF k = 0 THEN Response(selection) ELSE None]

\* the record of a process call
process_outcome(args, steps, k, selection) ==
    [Return("process", None, args, process_run(steps, k, selection), <<>>)
        EXCEPT !.raised = IF k = 0 THEN "" ELSE steps[k].raises]

\* the name whose success is recorded, had the selection recorded none
selected_name_never(valid, selection) == None

\* self._router.record_success(domain_name), when the input was valid and the
\* router has selected a processor
selected_name(valid, selection) ==
    IF valid /\ selection.error = "" THEN selection.domain_name ELSE None

process_selecting(valid, input, analyze, store, synthesize, selection, steps) ==
    /\ ret' = process_outcome(<<valid, input, analyze, store, synthesize>>,
                              steps, first_raising_step(steps), selection)
    /\ failures' = IF selected_name(valid, selection) = None THEN failures
                   ELSE without(failures, selected_name(valid, selection))
    /\ failure_calls' = IF selected_name(valid, selection) = None
                        THEN failure_calls
                        ELSE [failure_calls EXCEPT
                                 ![selected_name(valid, selection)] = 0]
    /\ UNCHANGED <<routing, engine, monitor, event_handlers, domains, fallback_chains>>

process_selected(valid, input, analyze, store, synthesize, selection) ==
    process_selecting(valid, input, analyze, store, synthesize, selection,
                      process_steps(valid, selection, engine.memory_store,
                                    analyze, store, synthesize))

\* CognitiveEngine.process(input_data); valid is the answer of validate_input,
\* input the answers of the processors' can_handle, analyze, store and
\* synthesize what these calls do when they are made ("ok" or "raise")
process(valid, input, analyze, store, synthesize) ==
    /\ engine.constructed
    /\ process_selected(valid, input, analyze, store, synthesize,
                        select_domain_processor(input))

(***************************************************************************)
(* The registry under its callers: any registration request over the       *)
(* processors, two priorities and a few dependency lists (none, one name,  *)
(* two names, the processor's own name).                                   *)
(***************************************************************************)
Priorities == {1, 10}

DepLists == {<<>>, <<"a">>, <<"b">>, <<"c">>, <<"a", "b">>}

Init ==
    /\ domains = <<>>
    /\ failures = [n \in {} |-> 0]
    /\ fallback_chains = [n \in {} |-> <<>>]
    /\ ret = Return("init", None, <<>>, None, <<>>)
    /\ failure_calls = [n \in Names |-> 0]
    /\ event_handlers = [t \in EventTypes |-> <<>>]
    /\ monitor = NoTask
    /\ engine = NoEngine
    /\ routing = NoRouting

Next ==
    \/ \E p \in Processors, pr \in Priorities, deps \in DepLists :
           register(p, DefaultVersion, pr, deps)
    \/ \E n \in Names : unregister(n)
    \/ \E n \in Names : get(n)
    \/ \E n \in Names : enable(n)
    \/ \E n \in Names : disable(n)

Spec == Init /\ [][Next]_vars

(***************************************************************************)
(* The scoring strategy called directly, on every can_handle outcome,      *)
(* priority and health status.                                             *)
(***************************************************************************)
ScoreNext ==
    \E o \in Outcomes, p \in ScorePriorities, h \in DomainHealth :
        score_call("a", o, p, h)

ScoreSpec == Init /\ [][ScoreNext]_vars

(***************************************************************************)
(* The router over two processors and their health: registrations with     *)
(* priorities along the bonus's ramp and at both of its ends (from 10 on   *)
(* the bonus is capped; the score is clamped to 0 below -16 for a healthy  *)
(* processor, below -15 for one of unknown health, below -9 for an         *)
(* unhealthy one), health checks, and route calls on every input and       *)
(* exclude list.                                                           *)
(***************************************************************************)
RoutedProcessors == {"a1", "b1"}

RoutedNames == {domain_name_of(p) : p \in RoutedProcessors}

SelectPriorities == {-17, -16, -15, -10, -9, 1, 10, 12}

\* an input, by what each processor's can_handle answers to it
Inputs == [RoutedProcessors -> {"yes", "no"}]

Excludes == {<<>>, <<"a">>, <<"b">>, <<"a", "b">>}

SelectNext ==
    \/ \E p \in RoutedProcessors, pr \in SelectPriorities :
           register(p, DefaultVersion, pr, <<>>)
    \/ \E n \in RoutedNames : enable(n)
    \/ \E n \in RoutedNames : disable(n)
    \/ \E n \in RoutedNames, probe \in Probes : health_check(n, probe)
    \/ \E input \in Inputs, exclude \in Excludes : route(input, exclude)
    \/ \E input \in Inputs : route_all(input)

SelectSpec == Init /\ [][SelectNext]_vars

(***************************************************************************)
(* The router and its circuit breaker: registrations, unregistrations,     *)
(* enabling and disabling, recorded failures and successes, resets, and    *)
(* route calls.  A caller records at most MaxFailures failures in a row.   *)
(***************************************************************************)
MaxFailures == 6

RouterPriorities == {1, 10}

RouterNext ==
    \/ \E p \in RoutedProcessors, pr \in RouterPriorities :
           register(p, DefaultVersion, pr, <<>>)
    \/ \E n \in RoutedNames : unregister(n)
    \/ \E n \in RoutedNames : enable(n)
    \/ \E n \in RoutedNames : disable(n)
    \/ \E n \in RoutedNames : failure_count(n) < MaxFailures /\ record_failure(n)
    \/ \E n \in RoutedNames : record_success(n)
    \/ \E n \in RoutedNames : reset_circuit_breaker(n)
    \/ \E input \in Inputs, exclude \in Excludes : route(input, exclude)
    \/ \E input \in Inputs : route_all(input)

RouterSpec == Init /\ [][RouterNext]_vars

(***************************************************************************)
(* The router with fallback chains: registrations, enabling and disabling, *)
(* a few recorded failures, chains set for either name, and route and      *)
(* route_with_fallback calls.                                              *)
(***************************************************************************)
MaxFallbackFailures == 1

FallbackLists == {<<"a">>, <<"b">>}

FallbackExcludes == {<<>>, <<"a">>}

FallbackNext ==
    \/ \E p \in RoutedProcessors, pr \in RouterPriorities :
           register(p, DefaultVersion, pr, <<>>)
    \/ \E n \in RoutedNames : enable(n)
    \/ \E n \in RoutedNames : disable(n)
    \/ \E n \in RoutedNames :
           failure_count(n) < MaxFallbackFailures /\ record_failure(n)
    \/ \E n \in RoutedNames, fallbacks \in FallbackLists :
           set_fallback_chain(n, fallbacks)
    \/ \E input \in Inputs, exclude \in FallbackExcludes : route(input, exclude)
    \/ \E input \in Inputs : route_with_fallback(input)

FallbackSpec == Init /\ [][FallbackNext]_vars

(***************************************************************************)
(* The registry's priority listing: three processors registered in any     *)
(* order with any of three priorities, enabled and disabled, and listed.   *)
(***************************************************************************)
ListedProcessors == {"a1", "b1", "c1"}

ListedPriorities == {1, 5, 10}

ListNext ==
    \/ \E p \in ListedProcessors, pr \in ListedPriorities :
           register(p, DefaultVersion, pr, <<>>)
    \/ \E n \in Names : enable(n)
    \/ \E n \in Names : disable(n)
    \/ \E enabled_only \in BOOLEAN : list_by_priority(enabled_only)

ListSpec == Init /\ [][ListNext]_vars

(***************************************************************************)
(* The registry's health checks: two processors registered, enabled and    *)
(* disabled, and checked with probes that are absent, answer true or false *)
(* or raise.                                                               *)
(***************************************************************************)
HealthPriorities == {1}

HealthNext ==
    \/ \E p \in RoutedProcessors, pr \in HealthPriorities :
           register(p, DefaultVersion, pr, <<>>)
    \/ \E n \in RoutedNames : enable(n)
    \/ \E n \in RoutedNames : disable(n)
    \/ \E n \in RoutedNames, probe \in Probes : health_check(n, probe)
    \/ \E probes \in [RoutedNames -> Probes] : health_check_all(probes)

HealthSpec == Init /\ [][HealthNext]_vars

\* the registry with subscribed handlers, some of which raise
MaxHandlers == 2

HandlerProcessors == {"a1"}

HandlerNames == {domain_name_of(p) : p \in HandlerProcessors}

HandlerProbes == {"true", "false"}

HandlerNext ==
    \/ \E t \in EventTypes \cup {"other"}, h \in Handlers :
           /\ t \in EventTypes => Len(event_handlers[t]) < MaxHandlers
           /\ on_event(t, h)
    \/ \E p \in HandlerProcessors, pr \in HealthPriorities :
           register(p, DefaultVersion, pr, <<>>)
    \/ \E n \in HandlerNames : unregister(n)
    \/ \E n \in HandlerNames, probe \in HandlerProbes : health_check(n, probe)

HandlerSpec == Init /\ [][HandlerNext]_vars

\* registrations with dependencies, announced to subscribed handlers
NotifyEvents == {"register", "unregister"}

NotifyDepLists == {<<>>, <<"a">>}

NotifyNext ==
    \/ \E t \in NotifyEvents, h \in Handlers :
           /\ Len(event_handlers[t]) < MaxHandlers
           /\ on_event(t, h)
    \/ \E p \in RoutedProcessors, deps \in NotifyDepLists :
           register(p, DefaultVersion, 1, deps)
    \/ \E n \in RoutedNames : unregister(n)

NotifySpec == Init /\ [][NotifyNext]_vars

\* registrations with dependencies among processors that are disabled, enabled
\* and health-checked
DependencyLists == {<<>>, <<"a">>, <<"b">>}

DependencyNext ==
    \/ \E p \in RoutedProcessors, deps \in DependencyLists :
           register(p, DefaultVersion, 1, deps)
    \/ \E n \in RoutedNames : unregister(n)
    \/ \E n \in RoutedNames : enable(n)
    \/ \E n \in RoutedNames : disable(n)
    \/ \E n \in RoutedNames, probe \in HandlerProbes : health_check(n, probe)

DependencySpec == Init /\ [][DependencyNext]_vars

\* health checks with every kind of probe under handlers subscribed to
\* "health_change"
HealthEventNext ==
    \/ \E h \in Handlers :
           /\ Len(event_handlers["health_change"]) < MaxHandlers
           /\ on_event("health_change", h)
    \/ \E p \in RoutedProcessors : register(p, DefaultVersion, 1, <<>>)
    \/ \E n \in RoutedNames, probe \in Probes : health_check(n, probe)

HealthEventSpec == Init /\ [][HealthEventNext]_vars

\* records registered, checked with every kind of probe, unregistered and
\* registered again
HealthLifeNext ==
    \/ \E p \in RoutedProcessors : register(p, DefaultVersion, 1, <<>>)
    \/ \E n \in RoutedNames : unregister(n)
    \/ \E n \in RoutedNames : enable(n)
    \/ \E n \in RoutedNames : disable(n)
    \/ \E n \in RoutedNames, probe \in Probes : health_check(n, probe)
    \/ \E probes \in [RoutedNames -> Probes] : health_check_all(probes)

HealthLifeSpec == Init /\ [][HealthLifeNext]_vars

\* route calls suspended at a can_handle while other tasks register,
\* unregister, disable and record failures
InterleavedNext ==
    \/ \E p \in RoutedProcessors : register(p, DefaultVersion, 1, <<>>)
    \/ \E n \in RoutedNames : unregister(n)
    \/ \E n \in RoutedNames : disable(n)
    \/ \E n \in RoutedNames :
           failure_count(n) < circuit_breaker_threshold /\ record_failure(n)
    \/ \E input \in Inputs : route_called(input, <<>>)
    \/ route_resumed

InterleavedSpec == Init /\ [][InterleavedNext]_vars

\* the router over processors whose can_handle may raise
FaultyInputs == [RoutedProcessors -> Outcomes]

FaultyNext ==
    \/ \E p \in RoutedProcessors, pr \in RouterPriorities :
           register(p, DefaultVersion, pr, <<>>)
    \/ \E n \in RoutedNames : disable(n)
    \/ \E n \in RoutedNames, probe \in HandlerProbes : health_check(n, probe)
    \/ \E input \in FaultyInputs, exclude \in FallbackExcludes :
           route(input, exclude)
    \/ \E input \in FaultyInputs : route_all(input)

FaultySpec == Init /\ [][FaultyNext]_vars

\* the registry growing while its health is monitored; every processor has a
\* health_check of its own
MonitorNext ==
    \/ \E p \in ListedProcessors : register(p, DefaultVersion, 1, <<>>)
    \/ start_health_monitoring
    \/ stop_health_monitoring
    \/ monitor_cancelled
    \/ monitor_polls
    \/ \E probe \in AwaitedProbes : monitor_probed(probe)

MonitorSpec == Init /\ [][MonitorNext]_vars

\* the event loop runs a task that can run: a sleep ends, a probe that is
\* awaited answers, a cancellation requested is delivered
MonitorLiveSpec == MonitorSpec /\ WF_vars(monitor_step)

\* an engine of either mode, with or without a memory store, its processors and
\* the inputs it processes
MaxProcessors == 2

EnginePriorities == {0}

StepOutcomes == {"ok", "raise"}

EngineNext ==
    \/ \E use_registry \in BOOLEAN, memory_store \in BOOLEAN :
           CognitiveEngine(use_registry, memory_store)
    \/ \E p \in RoutedProcessors, pr \in EnginePriorities :
           /\ Len(engine.domain_processors) < MaxProcessors
           /\ register_domain_processor(p, pr)
    \/ \E n \in RoutedNames :
           engine.constructed /\ engine.use_registry /\ disable(n)
    \/ \E valid \in BOOLEAN, input \in FaultyInputs,
          analyze \in StepOutcomes, store \in StepOutcomes,
          synthesize \in StepOutcomes :
           process(valid, input, analyze, store, synthesize)

EngineSpec == Init /\ [][EngineNext]_vars

\* an engine in registry mode whose callers record failures for the names of
\* its processors between process calls
CountedNext ==
    \/ CognitiveEngine(TRUE, FALSE)
    \/ \E p \in RoutedProcessors, pr \in EnginePriorities :
           /\ engine.constructed
           /\ register_domain_processor(p, pr)
    \/ \E n \in RoutedNames :
           /\ engine.constructed
           /\ failure_count(n) < circuit_breaker_threshold
           /\ record_failure(n)
    \/ \E valid \in BOOLEAN, input \in Inputs,
          analyze \in StepOutcomes, synthesize \in StepOutcomes :
           process(valid, input, analyze, "ok", synthesize)

CountedSpec == Init /\ [][CountedNext]_vars

(***************************************************************************)
(* The registry's contract                                                 *)
(***************************************************************************)
\* the positions of the records held under a name
records_of(domain_name) == {i \in 1..Len(domains) : domains[i].name = domain_name}

\* C1: get(name) returns the processor registered under name if and only if name
\* is registered and its enabled flag is true, and None in every other case
\* (never registered, unregistered, disabled).
C1_GetIffRegisteredAndEnabled ==
    ret.op = "get" =>
        LET live == {i \in records_of(ret.name) : domains[i].enabled}
        IN  IF live = {}
            THEN ret.result = None
            ELSE /\ ret.result # None
                 /\ \A i \in live : ret.result = domains[i].processor

\* get has answered None for a name that is registered, but disabled
C1_Witness ==
    /\ ret.op = "get"
    /\ ret.result = None
    /\ \E i \in records_of(ret.name) : ~domains[i].enabled

\* C2: register of a name that is already registered returns False without
\* raising, and leaves every record as it was, one record under that name.
C2_DuplicateRegisterRejected ==
    [][(ret'.op = "register" /\ records_of(ret'.name) # {}) =>
           /\ ret'.raised = ""
           /\ ret'.result = FALSE
           /\ ret'.events = <<>>
           /\ domains' = domains
           /\ Cardinality({i \in 1..Len(domains') : domains'[i].name = ret'.name}) = 1]_vars

\* a register call has returned False
C2_Witness ==
    /\ ret.op = "register"
    /\ ret.raised = ""
    /\ ret.result = FALSE
    /\ Len(domains) >= 2

\* C3: register of a name that is not registered, with a dependency list that
\* holds a name absent from the registry, raises and leaves the registry as it
\* was: no record is added and no register event is emitted.
C3_MissingDependencyRaises ==
    [][( /\ ret'.op = "register"
         /\ records_of(ret'.name) = {}
         /\ \E j \in 1..Len(ret'.args) : records_of(ret'.args[j]) = {} )
       => /\ ret'.raised = "ValueError"
          /\ ret'.events = <<>>
          /\ domains' = domains]_vars

\* a register call has raised while other names were registered
C3_Witness ==
    /\ ret.op = "register"
    /\ ret.raised = "ValueError"
    /\ domains # <<>>

\* the names that list domain_name among their dependencies
listed_by(domain_name) ==
    {i \in 1..Len(domains) :
        /\ domains[i].name # domain_name
        /\ \E j \in 1..Len(domains[i].dependencies) :
               domains[i].dependencies[j] = domain_name}

\* C4: unregister(name) while another registered processor, enabled or disabled,
\* lists name in its dependencies raises and leaves every record as it was; no
\* unregister event is emitted.
C4_UnregisterBlockedByDependents ==
    [][(ret'.op = "unregister" /\ listed_by(ret'.name) # {}) =>
           /\ ret'.raised = "ValueError"
           /\ ret'.events = <<>>
           /\ domains' = domains]_vars

\* unregister has raised for a name whose only dependents are disabled
C4_Witness ==
    /\ ret.op = "unregister"
    /\ ret.raised = "ValueError"
    /\ listed_by(ret.name) # {}
    /\ \A i \in listed_by(ret.name) : ~domains[i].enabled
(***************************************************************************)
(* The router's contract                                                   *)
(***************************************************************************)
\* the places of the records that an input and an exclude list leave for route:
\* enabled, absent from exclude, fewer than the threshold of failures counted,
\* and a processor that answers the input with can_handle true
eligible(input, exclude) ==
    {i \in 1..Len(domains) :
        /\ domains[i].enabled
        /\ \A j \in 1..Len(exclude) : exclude[j] # domains[i].name
        /\ domains[i].name \in DOMAIN failures
               => failures[domains[i].name] < circuit_breaker_threshold
        /\ input[domains[i].processor] = "yes"}

\* C5: route returns None exactly when no registered processor is at once
\* enabled, absent from exclude, not circuit-broken and able to handle the
\* input; otherwise the name (and processor) it returns is one of those.
C5_RouteNoneIffNoneEligible ==
    ret.op = "route" =>
        IF eligible(ret.args[1], ret.args[2]) = {}
        THEN ret.result = NoRoute
        ELSE /\ ret.result # NoRoute
             /\ \E i \in eligible(ret.args[1], ret.args[2]) :
                    /\ ret.result[1] = domains[i].name
                    /\ ret.result[2] = domains[i].processor

\* route has returned None although a registered, enabled, unbroken processor
\* can handle the input: it is named in exclude
C5_Witness ==
    /\ ret.op = "route"
    /\ ret.result = NoRoute
    /\ eligible(ret.args[1], <<>>) # {}
    /\ \A i \in eligible(ret.args[1], <<>>) : in_list(ret.args[2], domains[i].name)
\* the place in the registry of the record held under a name
place_of(domain_name) == CHOOSE i \in 1..Len(domains) : domains[i].name = domain_name

\* the score the strategy gives the record at place i for an input
score_at(i, input) == score_of(domains[i], input).score

\* C6: among the candidates that can handle the input route returns one whose
\* score is the maximum, and of several with the maximum score the one that
\* was registered first: the name returned is fixed by the state and the call.
C6_RouteFirstMaximum ==
    (ret.op = "route" /\ ret.result # NoRoute) =>
        LET input == ret.args[1]
            E     == eligible(ret.args[1], ret.args[2])
            w     == place_of(ret.result[1])
        IN  /\ w \in E
            /\ ret.result[3].score = score_at(w, input)
            /\ \A i \in E : ~FLess(score_at(w, input), score_at(i, input))
            /\ \A i \in E : i < w => FLess(score_at(i, input), score_at(w, input))

\* route has returned the first registered of two candidates with one score,
\* although their priorities differ
C6_Witness ==
    /\ ret.op = "route"
    /\ ret.result # NoRoute
    /\ \E i, j \in eligible(ret.args[1], ret.args[2]) :
           /\ i < j
           /\ domains[i].priority < domains[j].priority
           /\ score_at(i, ret.args[1]) = score_at(j, ret.args[1])
           /\ ret.result[1] = domains[i].name
\* the pairs <<i, j>> of candidates of a route call with one health status, the
\* priority of i strictly above the priority of j
ranked_pairs(input, exclude) ==
    {p \in eligible(input, exclude) \X eligible(input, exclude) :
        /\ domains[p[1]].health = domains[p[2]].health
        /\ domains[p[1]].priority > domains[p[2]].priority}

penalty_hundredths(health) ==
    CASE health = HEALTHY   -> 0
      [] health = DEGRADED  -> 10
      [] health = UNHEALTHY -> 20
      [] health = UNKNOWN   -> 5

smaller(m, n) == IF m < n THEN m ELSE n

larger(m, n) == IF m > n THEN m ELSE n

\* clamp(base + bonus - penalty, 0, 1) over the real numbers, in hundredths
clamped_hundredths(base, priority, health) ==
    larger(0, smaller(100, base + smaller(3 * priority, 30)
                                - penalty_hundredths(health)))

\* the distance of two magnitudes
distance(a, b) == IF BCmp(a, b) = 1 THEN BSub(a, b) ELSE BSub(b, a)

\* a float within 2^-50 of n hundredths
within_rounding(x, n) ==
    /\ ~x.neg
    /\ BCmp(distance(BMulSmall(x.mag, 100), BMulSmall(BShl(<<1>>, FracBits), n)),
            BMulSmall(BShl(<<1>>, FracBits - 50), 100)) # 1

\* C8: for every can_handle outcome, priority and health status the strategy
\* returns score = clamp(base + bonus - penalty, 0, 1), base 0.5 if can_handle
\* else 0, bonus min(priority/10 * 0.3, 0.3), penalty 0.1 for Degraded, 0.2 for
\* Unhealthy, 0.05 for Unknown, 0 for Healthy: the float that this arithmetic
\* gives, which lies within rounding of the real value; can-handle, priority 10,
\* Healthy scores 0.8 and can-handle, priority 0, Unhealthy scores 0.3.
C8_ScoreIsTheClampedFormula ==
    ret.op = "score" =>
        LET can     == ret.args[1] = "yes"
            p       == ret.args[2]
            h       == ret.args[3]
            base    == IF can THEN Literal(5, 10) ELSE FromInt(0)
            bonus   == FMin(FMul(FDivInt(FromInt(p), 10), Literal(3, 10)),
                            Literal(3, 10))
            penalty == FDivInt(FromInt(penalty_hundredths(h)), 100)
        IN  /\ ret.result.can_handle = can
            /\ ret.result.score =
                   FMax(FromInt(0), FMin(FromInt(1), FSub(FAdd(base, bonus), penalty)))
            /\ within_rounding(ret.result.score,
                               clamped_hundredths(IF can THEN 50 ELSE 0, p, h))
            /\ (can /\ p = 10 /\ h = HEALTHY) => ret.result.score = Literal(8, 10)
            /\ (can /\ p = 0 /\ h = UNHEALTHY) => ret.result.score = Literal(3, 10)

\* the strategy has scored a healthy can-handle processor of priority 10 at 0.8
C8_Witness ==
    /\ ret.op = "score"
    /\ ret.args = <<"yes", 10, HEALTHY>>
    /\ ret.result.score = Literal(8, 10)

\* C9, as stated: a processor whose can_handle is false receives score 0, for
\* every priority and health status.
C9_CannotHandleScoresZero ==
    (ret.op = "score" /\ ~ret.result.can_handle) => ret.result.score = FromInt(0)

\* C9, amended: a processor whose can_handle is false (or raises) receives the
\* score max(0, bonus - penalty): 0 exactly when the bonus does not exceed the
\* penalty, so for every priority up to 0, and at most 0.3 otherwise.
C9_CannotHandleScoresBonusLessPenalty ==
    (ret.op = "score" /\ ~ret.result.can_handle) =>
        /\ ret.args[1] # "yes"
        /\ ret.result.score = FromInt(0)
               <=> 3 * ret.args[2] <= penalty_hundredths(ret.args[3])
        /\ ret.args[2] <= 0 => ret.result.score = FromInt(0)
        /\ ~FLess(Literal(3, 10), ret.result.score)
        /\ within_rounding(ret.result.score,
                           clamped_hundredths(0, ret.args[2], ret.args[3]))

\* the strategy has scored a healthy processor of priority 10 that cannot
\* handle the input at 0.3
C9_Witness ==
    /\ ret.op = "score"
    /\ ret.args = <<"no", 10, HEALTHY>>
    /\ ret.result.score = Literal(3, 10)
(***************************************************************************)
(* The circuit breaker's contract                                          *)
(***************************************************************************)
\* the failures recorded for a name since its last success or reset
recorded(f, domain_name) == IF domain_name \in DOMAIN f THEN f[domain_name] ELSE 0

\* the names in what a route or route_all call returned
returned_names(r) ==
    IF r.op = "route"
    THEN (IF r.result = NoRoute THEN {} ELSE {r.result[1]})
    ELSE IF r.op = "route_all"
    THEN {r.result[i][1] : i \in 1..Len(r.result)}
    ELSE {}

\* a record_success or reset_circuit_breaker call for the name
clears(r, domain_name) ==
    r.op \in {"record_success", "reset_circuit_breaker"} /\ r.name = domain_name

\* C10: each record_failure(name) adds one to the failures counted for name and
\* nothing but record_success(name) and reset_circuit_breaker(name) changes the
\* count, which they set to 0; so after 5 record_failure calls with none of the
\* two between them the count is 5 or more, and while it is, no route call
\* returns name and no route_all result includes it, whatever other operations
\* run.  The route call that follows record_success(name) or
\* reset_circuit_breaker(name) treats name as eligible: it returns a processor
\* if name is enabled, not excluded and can handle the input, and returns name
\* if no other record is eligible.
C10_CircuitBreaker ==
    [][\A n \in RoutedNames :
          /\ recorded(failures', n) =
                 IF ret'.op = "record_failure" /\ ret'.name = n
                 THEN recorded(failures, n) + 1
                 ELSE IF clears(ret', n) THEN 0
                 ELSE recorded(failures, n)
          /\ (recorded(failures, n) >= 5 /\ ~clears(ret', n))
                 => /\ recorded(failures', n) >= 5
                    /\ n \notin returned_names(ret')
          /\ recorded(failures', n) >= 5 => n \notin returned_names(ret')
          /\ (clears(ret, n) /\ ret'.op = "route")
                 => \A i \in 1..Len(domains) :
                        ( /\ domains[i].name = n
                          /\ domains[i].enabled
                          /\ ~in_list(ret'.args[2], n)
                          /\ ret'.args[1][domains[i].processor] = "yes" )
                        => /\ ret'.result # NoRoute
                           /\ i \in eligible(ret'.args[1], ret'.args[2])
                           /\ eligible(ret'.args[1], ret'.args[2]) = {i}
                                  => ret'.result[1] = n
    ]_vars

\* route has returned b while a, enabled, of higher priority and able to handle
\* the input, has 5 failures counted
C10_Witness ==
    /\ ret.op = "route"
    /\ ret.args[2] = <<>>
    /\ ret.result # NoRoute
    /\ ret.result[1] = "b"
    /\ recorded(failures, "a") = 5
    /\ \E i \in 1..Len(domains) :
           /\ domains[i].name = "a"
           /\ domains[i].enabled
           /\ domains[i].priority > item(domains, "b").priority
           /\ ret.args[1][domains[i].processor] = "yes"
\* C11: the failure counter of a name equals the number of record_failure calls
\* made for it since the latest record_success or reset_circuit_breaker for it
\* (or since the router was created), the name is circuit-broken exactly when
\* that number is at least 5, and record_failure, record_success and
\* reset_circuit_breaker on one name leave the counter of every other name as
\* it was.
C11_FailureCounter ==
    [][\A n \in Names :
          /\ failure_count(n)' = failure_calls'[n]
          /\ is_circuit_broken(n)' <=> failure_calls'[n] >= 5
          /\ ( /\ ret'.op \in {"record_failure", "record_success",
                               "reset_circuit_breaker"}
               /\ ret'.name # n )
                 => failure_count(n)' = failure_count(n)
    ]_vars

\* a success has been recorded for one name while another has its 5 failures
\* counted and its circuit broken
C11_Witness ==
    /\ ret.op = "record_success"
    /\ failure_count(ret.name) = 0
    /\ \E n \in Names :
           /\ n # ret.name
           /\ failure_calls[n] = 5
           /\ is_circuit_broken(n)
\* a route call r, nothing excluded, on an input that both can handle, with the
\* records d: A = "a" of priority 10 and B = "b" of priority 1, both enabled,
\* and no failure counted for B in f
routes_A_and_B(r, d, f) ==
    /\ r.op = "route"
    /\ r.args[2] = <<>>
    /\ contains(d, "a") /\ contains(d, "b")
    /\ item(d, "a").priority = 10 /\ item(d, "b").priority = 1
    /\ item(d, "a").enabled /\ item(d, "b").enabled
    /\ r.args[1][item(d, "a").processor] = "yes"
    /\ r.args[1][item(d, "b").processor] = "yes"
    /\ "b" \notin DOMAIN f

\* C12: with A (priority 10) and B (priority 1) registered, enabled and able to
\* handle the input, route returns A while no failure is counted for A; the
\* route call after the fifth record_failure(A) returns B; the route call after
\* a record_success(A) returns A.
C12_FailuresThenSuccess ==
    [][routes_A_and_B(ret', domains', failures') =>
          /\ failure_calls'["a"] = 0 => ret'.result[1] = "a"
          /\ (ret.op = "record_failure" /\ ret.name = "a" /\ failure_calls["a"] = 5)
                 => ret'.result[1] = "b"
          /\ (ret.op = "record_success" /\ ret.name = "a")
                 => ret'.result[1] = "a"
    ]_vars

\* route has returned B, registered after A, when 5 failures in a row have been
\* recorded for A
C12_Witness ==
    /\ routes_A_and_B(ret, domains, failures)
    /\ failure_calls["a"] = 5
    /\ place_of("a") < place_of("b")
    /\ ret.result[1] = "b"
(***************************************************************************)
(* route's frame, and route_with_fallback                                  *)
(***************************************************************************)
\* C13: a route call changes no state of the registry or the router: the
\* records and their fields, the failure counters and the fallback chains are
\* after it what they were before, whatever it returns.
C13_RouteChangesNothing ==
    [][ret'.op = "route" =>
           /\ domains' = domains
           /\ failures' = failures
           /\ fallback_chains' = fallback_chains]_vars

\* route has returned a processor for which a failure is counted and a chain of
\* fallbacks is set
C13_Witness ==
    /\ ret.op = "route"
    /\ ret.result # NoRoute
    /\ ret.result[1] \in DOMAIN failures
    /\ get_fallback_chain(ret.result[1]) # <<>>

C15_RouteAllIsTheEligibleSorted ==
    ret.op = "route_all" =>
        /\ {ret.result[k][1] : k \in 1..Len(ret.result)}
               = {domains[i].name : i \in eligible(ret.args[1], <<>>)}
        /\ Len(ret.result) = Cardinality(eligible(ret.args[1], <<>>))
        /\ \A k \in 1..Len(ret.result) :
               /\ ret.result[k][2] = domains[place_of(ret.result[k][1])].processor
               /\ ret.result[k][3].domain_name = ret.result[k][1]
               /\ ret.result[k][3].score
                      = score_at(place_of(ret.result[k][1]), ret.args[1])
        /\ \A k \in 1..(Len(ret.result) - 1) :
               ~FLess(ret.result[k][3].score, ret.result[k + 1][3].score)

\* route_all has returned one processor of two registered: the other one is
\* enabled and can handle the input, but its circuit is broken
C15_Witness ==
    /\ ret.op = "route_all"
    /\ Len(ret.result) = 1
    /\ \E i \in 1..Len(domains) :
           /\ domains[i].name # ret.result[1][1]
           /\ domains[i].enabled
           /\ ret.args[1][domains[i].processor] = "yes"
           /\ is_circuit_broken(domains[i].name)
(***************************************************************************)
(* The registry's listing and health checks                                *)
(***************************************************************************)
\* C16: list_by_priority returns the registered names (the enabled ones when
\* enabled_only is true) by non-increasing priority, names of one priority in
\* the order of their registration; priorities 1, 10, 5 give the names of
\* priority 10, 5, 1 in that order.
C16_ListByPriority ==
    ret.op = "list_by_priority" =>
        /\ {ret.result[k] : k \in 1..Len(ret.result)}
               = {domains[i].name : i \in {j \in 1..Len(domains) :
                                             ret.args[1] => domains[j].enabled}}
        /\ \A k, l \in 1..Len(ret.result) :
               k < l =>
                   /\ ret.result[k] # ret.result[l]
                   /\ \/ item(domains, ret.result[k]).priority
                             > item(domains, ret.result[l]).priority
                      \/ /\ item(domains, ret.result[k]).priority
                                = item(domains, ret.result[l]).priority
                         /\ place_of(ret.result[k]) < place_of(ret.result[l])
        /\ (/\ Len(domains) = 3
            /\ \A i \in 1..3 : domains[i].enabled
            /\ <<domains[1].priority, domains[2].priority, domains[3].priority>>
                   = <<1, 10, 5>>)
               => ret.result = <<domains[2].name, domains[3].name, domains[1].name>>

\* the default listing has left out a disabled name of the highest priority and
\* returned two names of one priority in the order of their registration
C16_Witness ==
    /\ ret.op = "list_by_priority"
    /\ ret.args[1]
    /\ Len(domains) = 3
    /\ Len(ret.result) = 2
    /\ item(domains, ret.result[1]).priority = item(domains, ret.result[2]).priority
    /\ \E i \in 1..3 : ~domains[i].enabled /\ domains[i].priority = 10
\* C17: health_check(name) on a registered processor stores and returns Healthy
\* when the processor has no probe or the probe answers true, Unhealthy when the
\* probe answers false, and Unhealthy when the probe raises, in which case
\* nothing is raised to the caller.
C17_HealthCheckOutcome ==
    (ret.op = "health_check" /\ records_of(ret.name) # {}) =>
        /\ ret.raised = ""
        /\ ret.result = CASE ret.args[1] = "none"  -> HEALTHY
                          [] ret.args[1] = "true"  -> HEALTHY
                          [] ret.args[1] = "false" -> UNHEALTHY
                          [] ret.args[1] = "raise" -> UNHEALTHY
        /\ \A i \in records_of(ret.name) :
               /\ domains[i].health = ret.result
               /\ domains[i].last_health_check # None

\* a health check whose probe raised has returned Unhealthy
C17_Witness ==
    /\ ret.op = "health_check"
    /\ ret.args[1] = "raise"
    /\ ret.raised = ""
    /\ ret.result = UNHEALTHY
    /\ \E i \in records_of(ret.name) : domains[i].health = UNHEALTHY
\* the health stored for a name in the records d, None when it holds no record
stored_health(d, domain_name) ==
    IF contains(d, domain_name) THEN item(d, domain_name).health ELSE None

\* C18: health_check emits a health_change notification only when the health
\* stored after the check differs from the health stored before it, and then
\* one, for the name checked; a check that leaves the status as it was emits
\* none.
C18_HealthChangeOnlyOnTransition ==
    [][ret'.op = "health_check" =>
           /\ ret'.events \in {<<>>, <<<<"health_change", ret'.name>>>>}
           /\ ret'.events # <<>>
                  => stored_health(domains', ret'.name)
                         # stored_health(domains, ret'.name)
           /\ stored_health(domains', ret'.name) = stored_health(domains, ret'.name)
                  => ret'.events = <<>>]_vars

\* a health check has found a processor unhealthy that was not, and has emitted
\* the notification
C18_Witness ==
    /\ ret.op = "health_check"
    /\ ret.args[1] = "false"
    /\ ret.events = <<<<"health_change", ret.name>>>>
    /\ stored_health(domains, ret.name) = UNHEALTHY
\* C19: health_check_all returns a status for every registered name, enabled or
\* disabled, and for no other; it raises nothing when a probe raises, reports
\* that processor Unhealthy, and has checked every other processor: each record
\* holds a check time and the status the call reports for it, Healthy or
\* Unhealthy as its own probe answered.
C19_HealthCheckAllToleratesFailures ==
    ret.op = "health_check_all" =>
        /\ ret.raised = ""
        /\ Len(ret.result) = Len(domains)
        /\ \A i \in 1..Len(domains) :
               /\ ret.result[i][1] = domains[i].name
               /\ ret.result[i][2] =
                      CASE ret.args[1][domains[i].name] = "raise" -> UNHEALTHY
                        [] ret.args[1][domains[i].name] = "false" -> UNHEALTHY
                        [] OTHER -> HEALTHY
               /\ domains[i].health = ret.result[i][2]
               /\ domains[i].last_health_check # None

\* the probe of the first processor has raised; the batch has gone on to the
\* second, a disabled processor, and has found it healthy
C19_Witness ==
    /\ ret.op = "health_check_all"
    /\ ret.raised = ""
    /\ Len(domains) = 2
    /\ ret.args[1][domains[1].name] = "raise"
    /\ ret.result[1] = <<domains[1].name, UNHEALTHY>>
    /\ ~domains[2].enabled
    /\ ret.result[2] = <<domains[2].name, HEALTHY>>
    /\ domains[2].health = HEALTHY
\* the handler calls a notification of the event type for the name leads to when
\* no handler is skipped
every_handler(event_type, domain_name) ==
    [n \in 1..Len(event_handlers[event_type]) |-> <<event_type, domain_name, n>>]

\* C20: a register, unregister or health_check that notifies handlers raises
\* nothing, whatever the handlers raise: it returns its normal value (True for
\* register and unregister, the new status for health_check), its state change
\* is made (the record is there, is gone, holds the new status), and every
\* handler subscribed to the event has been invoked, those after a raising
\* handler included.
C20_HandlerExceptionsAreContained ==
    (ret.op \in {"register", "unregister", "health_check"} /\ ret.events # <<>>) =>
        /\ ret.raised = ""
        /\ ret.events = <<<<IF ret.op = "health_check" THEN "health_change"
                            ELSE ret.op, ret.name>>>>
        /\ ret.invoked = every_handler(ret.events[1][1], ret.name)
        /\ ret.op = "register" =>
               ret.result = TRUE /\ records_of(ret.name) # {}
        /\ ret.op = "unregister" =>
               ret.result = TRUE /\ records_of(ret.name) = {}
        /\ ret.op = "health_check" =>
               /\ ret.result \in {HEALTHY, UNHEALTHY}
               /\ \A i \in records_of(ret.name) : domains[i].health = ret.result

\* the first handler of an unregistration raises and a second is subscribed:
\* both have been invoked, the call has returned True and the record is gone
C20_Witness ==
    /\ ret.op = "unregister"
    /\ ret.raised = ""
    /\ ret.result = TRUE
    /\ records_of(ret.name) = {}
    /\ event_handlers["unregister"] = <<"raises", "returns">>
    /\ ret.invoked = <<<<"unregister", ret.name, 1>>, <<"unregister", ret.name, 2>>>>
\* the names in a list of keys
names_in(ks) == {ks[i] : i \in 1..Len(ks)}

\* C21: a register that succeeds has called every subscription to "register"
\* once, in order, with the new name, and the handlers found the name among the
\* registry's keys; an unregister that succeeds has called every subscription
\* to "unregister" once with the name, which the handlers no longer found
\* there; a register or unregister that returns False or raises has called no
\* handler.
C21_HandlersOnSuccessOnly ==
    ret.op \in {"register", "unregister"} =>
        IF ret.raised = "" /\ ret.result = TRUE
        THEN /\ ret.invoked = every_handler(ret.op, ret.name)
             /\ ret.events = <<<<ret.op, ret.name>>>>
             /\ ret.op = "register" =>
                    ret.name \in names_in(ret.seen) /\ records_of(ret.name) # {}
             /\ ret.op = "unregister" =>
                    ret.name \notin names_in(ret.seen) /\ records_of(ret.name) = {}
        ELSE /\ ret.invoked = <<>>
             /\ ret.events = <<>>

\* two handlers are subscribed to "register" and a registration with a
\* dependency has called both, the name being in the registry
C21_Witness ==
    /\ ret.op = "register"
    /\ ret.raised = ""
    /\ ret.result = TRUE
    /\ ret.args = <<"a">>
    /\ Len(event_handlers["register"]) = 2
    /\ ret.invoked = <<<<"register", ret.name, 1>>, <<"register", ret.name, 2>>>>
    /\ ret.name \in names_in(ret.seen)

\* the records d with the enabled flag of the name set to flag and nothing else
\* changed
flagged(d, domain_name, flag) ==
    [i \in 1..Len(d) |->
        IF d[i].name = domain_name THEN [d[i] EXCEPT !.enabled = flag] ELSE d[i]]

\* C22: enable (disable) of a registered name returns True and sets the
\* enabled flag of its record to true (false), changing nothing else; of an
\* unregistered name it returns False and changes nothing; and a second enable
\* (disable) of the same name right after the first leaves the registry as the
\* first left it and returns what the first returned.
C22_EnableDisableIdempotent ==
    [][ret'.op \in {"enable", "disable"} =>
           /\ ret'.raised = ""
           /\ IF \E i \in 1..Len(domains) : domains[i].name = ret'.name
              THEN /\ ret'.result = TRUE
                   /\ domains' = flagged(domains, ret'.name, ret'.op = "enable")
              ELSE /\ ret'.result = FALSE
                   /\ domains' = domains
           /\ (ret.op = ret'.op /\ ret.name = ret'.name) =>
                  /\ domains' = domains
                  /\ ret'.result = ret.result]_vars

\* a processor that was healthy and enabled has been disabled: its record keeps
\* its health, and disabling it once more would change nothing
C22_Witness ==
    /\ ret.op = "disable"
    /\ ret.raised = ""
    /\ ret.result = TRUE
    /\ \E i \in records_of(ret.name) :
           ~domains[i].enabled /\ domains[i].health = HEALTHY
    /\ flagged(domains, ret.name, FALSE) = domains
\* C23: a register of a name not yet registered, all of whose declared
\* dependencies are names in the registry, succeeds whatever the enabled flag
\* and the health of those dependencies: it returns True and appends the record
\* with its dependencies; and a disable changes no record but the one it names
\* and only its enabled flag, so no dependent is removed or altered.
C23_DependencyCheckIsByExistence ==
    [][/\ (/\ ret'.op = "register"
           /\ \A i \in 1..Len(domains) : domains[i].name # ret'.name
           /\ \A j \in 1..Len(ret'.args) :
                  \E i \in 1..Len(domains) : domains[i].name = ret'.args[j])
          => /\ ret'.raised = ""
             /\ ret'.result = TRUE
             /\ Len(domains') = Len(domains) + 1
             /\ SubSeq(domains', 1, Len(domains)) = domains
             /\ domains'[Len(domains')].name = ret'.name
             /\ domains'[Len(domains')].dependencies = ret'.args
       /\ ret'.op = "disable"
          => /\ Len(domains') = Len(domains)
             /\ \A i \in 1..Len(domains) :
                    /\ domains'[i].name = domains[i].name
                    /\ domains'[i].dependencies = domains[i].dependencies
                    /\ domains[i].name # ret'.name => domains'[i] = domains[i]]_vars

\* a processor has been registered with a dependency that is disabled and
\* unhealthy
C23_Witness ==
    /\ ret.op = "register"
    /\ ret.raised = ""
    /\ ret.result = TRUE
    /\ ret.args = <<"a">>
    /\ \E i \in records_of("a") :
           ~domains[i].enabled /\ domains[i].health = UNHEALTHY
    /\ \E i \in records_of(ret.name) : domains[i].dependencies = <<"a">>
\* C30: in every state reached by register, unregister, enable, disable and
\* health_check calls, every name in the dependencies of a registered record is
\* the name of a registered record.
C30_DependenciesAreRegistered ==
    \A i \in 1..Len(domains) :
        \A j \in 1..Len(domains[i].dependencies) :
            \E k \in 1..Len(domains) : domains[k].name = domains[i].dependencies[j]

\* the unregistration of a processor has been refused because a disabled
\* processor depends on it, and both are still registered
C30_Witness ==
    /\ ret.op = "unregister"
    /\ ret.raised = "ValueError"
    /\ records_of(ret.name) # {}
    /\ \E i \in 1..Len(domains) :
           /\ domains[i].dependencies = <<ret.name>>
           /\ ~domains[i].enabled
\* the places of the enabled, unexcluded, unbroken records whose processor's
\* can_handle raises on the input
faulty(input, exclude) ==
    {i \in 1..Len(domains) :
        /\ domains[i].enabled
        /\ \A j \in 1..Len(exclude) : exclude[j] # domains[i].name
        /\ domains[i].name \in DOMAIN failures
               => failures[domains[i].name] < circuit_breaker_threshold
        /\ input[domains[i].processor] = "raise"}

\* C24: a route or route_all among whose candidates one's can_handle raises
\* raises nothing and leaves that candidate out: route returns None when no
\* other candidate can handle the input and otherwise one of those that can,
\* none of which scores higher; route_all returns exactly those that can, the
\* empty list when there is none.
C24_RaisingCanHandleIsUnable ==
    (ret.op \in {"route", "route_all"}
        /\ faulty(ret.args[1], IF ret.op = "route" THEN ret.args[2] ELSE <<>>) # {})
    => /\ ret.raised = ""
       /\ ret.op = "route" =>
              IF eligible(ret.args[1], ret.args[2]) = {}
              THEN ret.result = NoRoute
              ELSE /\ ret.result # NoRoute
                   /\ \E i \in eligible(ret.args[1], ret.args[2]) :
                          /\ ret.result[1] = domains[i].name
                          /\ ret.result[3].can_handle
                          /\ ret.result[3].score = score_at(i, ret.args[1])
                   /\ \A i \in eligible(ret.args[1], ret.args[2]) :
                          ~FLess(ret.result[3].score, score_at(i, ret.args[1]))
       /\ ret.op = "route_all" =>
              /\ Len(ret.result) = Cardinality(eligible(ret.args[1], <<>>))
              /\ {ret.result[k][1] : k \in 1..Len(ret.result)}
                     = {domains[i].name : i \in eligible(ret.args[1], <<>>)}

\* the can_handle of the processor of higher priority has raised and route has
\* returned the other one
C24_Witness ==
    /\ ret.op = "route"
    /\ ret.raised = ""
    /\ ret.result # NoRoute
    /\ \E i \in faulty(ret.args[1], ret.args[2]) :
           /\ domains[i].priority = 10
           /\ domains[i].name # ret.result[1]
           /\ domains[place_of(ret.result[1])].priority = 1
(***************************************************************************)
(* The monitoring task                                                     *)
(***************************************************************************)
\* the monitoring task exists and is not done
running == monitor.pc \in {"ready", "probing", "sleeping", "delay"}

\* C25: the monitoring task ends only in a step that delivers a cancellation
\* stop_health_monitoring has requested; and from the delay that follows an
\* error raised in a round it goes on to a further round of health_check_all,
\* unless a cancellation is requested first.
C25_MonitorEndsOnlyByCancellation ==
    /\ [][(running /\ monitor'.pc \in Done) => monitor.cancel]_vars
    /\ (monitor.pc = "delay" /\ ~monitor.cancel)
           ~> (monitor.pc \in {"probing", "sleeping"} \/ monitor.cancel)

\* a round has failed, the task has slept and is probing again
C25_Witness ==
    /\ ret.op = "monitor"
    /\ ret.args = <<"delay", "">>
    /\ monitor.pc = "probing"

\* C26: a cancellation requested of a running monitoring task is delivered in
\* the end and the task is done then; the step that delivers it, be the task
\* asleep between rounds, awaiting a probe or in the delay after an error,
\* leaves it done without a record checked; and a task that is done begins no
\* health check: only start_health_monitoring makes a new one.
C26_CancellationEndsMonitor ==
    /\ (running /\ monitor.cancel) ~> (monitor.pc \in Done)
    /\ [][(monitor.cancel /\ monitor' # monitor)
              => (monitor'.pc \in Done /\ domains' = domains)]_vars
    /\ [][(monitor.pc \in Done /\ monitor' # monitor)
              => (ret'.op = "start_health_monitoring" /\ monitor'.pc = "ready")]_vars

\* the task has been cancelled while it awaited a probe, and has left its loop
C26_Witness ==
    /\ ret.op = "monitor"
    /\ ret.args = <<"probing", "CancelledError">>
    /\ monitor.pc = "exited"
(***************************************************************************)
(* The engine's pipeline                                                   *)
(***************************************************************************)
\* the names of the calls in a trace
step_names(trace) == [i \in 1..Len(trace) |-> trace[i].step]

\* the order of the pipeline, with the store when the engine has a memory store
pipeline(memory_store) ==
    IF memory_store
    THEN <<"validate", "route", "analyze", "store", "synthesize">>
    ELSE <<"validate", "route", "analyze", "synthesize">>

\* C27: the calls of a process call are a beginning of validate, route, analyze,
\* store (when there is a memory store), synthesize, in this order, ended by
\* the first call that raises. An invalid input raises ValueError with nothing
\* but the validation made. The context is at RECEIVED while the processor is
\* selected, at ANALYZING during the analysis and the store, at SYNTHESIZING
\* during the synthesis; it ends at COMPLETED when process returns, which it
\* does after the whole pipeline, and at FAILED when the selection, the analysis,
\* the store or the synthesis has raised.
C27_PipelineOrderAndStages ==
    ret.op = "process" =>
        /\ Len(ret.result.trace) >= 1
        /\ Len(ret.result.trace) <= Len(pipeline(engine.memory_store))
        /\ step_names(ret.result.trace)
               = SubSeq(pipeline(engine.memory_store), 1, Len(ret.result.trace))
        /\ \A i \in 1..(Len(ret.result.trace) - 1) : ret.result.trace[i].raises = ""
        /\ ret.raised = ret.result.trace[Len(ret.result.trace)].raises
        /\ \A i \in 1..Len(ret.result.trace) :
               ret.result.trace[i].stage =
                   CASE ret.result.trace[i].step = "validate"   -> None
                     [] ret.result.trace[i].step = "route"      -> RECEIVED
                     [] ret.result.trace[i].step = "analyze"    -> ANALYZING
                     [] ret.result.trace[i].step = "store"      -> ANALYZING
                     [] ret.result.trace[i].step = "synthesize" -> SYNTHESIZING
        /\ ~ret.args[1] =>
               /\ ret.raised = "ValueError"
               /\ step_names(ret.result.trace) = <<"validate">>
               /\ ret.result.stage = None
        /\ (ret.args[1] /\ ret.raised = "") =>
               /\ step_names(ret.result.trace) = pipeline(engine.memory_store)
               /\ ret.result.stage = COMPLETED
        /\ (ret.args[1] /\ ret.raised # "") =>
               /\ Len(ret.result.trace) >= 2
               /\ ret.result.stage = FAILED

\* the store has raised after the analysis of the selected processor: no
\* synthesis was made and the context is at FAILED
C27_Witness ==
    /\ ret.op = "process"
    /\ ret.raised = "Exception"
    /\ step_names(ret.result.trace) = <<"validate", "route", "analyze", "store">>
    /\ ret.result.trace[3].by \in RoutedProcessors
    /\ ret.result.stage = FAILED
\* a process call of an engine in registry mode, of a valid input for which
\* route finds no processor: none that is enabled, unbroken and able to handle it
unrouted ==
    /\ ret.op = "process"
    /\ engine.use_registry
    /\ ret.args[1]
    /\ eligible(ret.args[2], <<>>) = {}

\* the default analysis and the default synthesis have run, the domain of the
\* context is empty and its stage COMPLETED
completed_by_default ==
    /\ ret.raised = ""
    /\ ret.result.domain = None
    /\ ret.result.stage = COMPLETED
    /\ \A i \in 1..Len(ret.result.trace) :
           ret.result.trace[i].step \in {"analyze", "synthesize"}
               => ret.result.trace[i].by = "default"
    /\ {"analyze", "synthesize"}
           \subseteq {ret.result.trace[i].step : i \in 1..Len(ret.result.trace)}
    /\ ret.result.response.by = "default"

between(low, x, high) == ~FLess(x, low) /\ ~FLess(high, x)

\* C29, as stated: the priority bonus the strategy reports lies between 0 and
\* 0.3 for every integer priority, and the health penalty between 0 and 0.2.
C29_BonusAndPenaltyInRange ==
    ret.op = "score" =>
        /\ between(FromInt(0), ret.result.metadata.priority_bonus, Literal(3, 10))
        /\ between(FromInt(0), ret.result.metadata.health_penalty, Literal(2, 10))

\* C29, as the code has it: the bonus never exceeds 0.3 and the penalty lies
\* between 0 and 0.2, but the bonus has no lower end: it is negative for every
\* negative priority, -0.3 for priority -10.
C29_BonusCappedNotFloored ==
    ret.op = "score" =>
        /\ ~FLess(Literal(3, 10), ret.result.metadata.priority_bonus)
        /\ FLess(ret.result.metadata.priority_bonus, FromInt(0)) <=> ret.args[2] < 0
        /\ ret.args[2] = -10 =>
               ret.result.metadata.priority_bonus = FSub(FromInt(0), Literal(3, 10))
        /\ between(FromInt(0), ret.result.metadata.health_penalty, Literal(2, 10))

\* the strategy has reported a bonus of -0.3 for a processor of priority -10
C29_Witness ==
    /\ ret.op = "score"
    /\ ret.args = <<"yes", -10, HEALTHY>>
    /\ FLess(ret.result.metadata.priority_bonus, FromInt(0))

(***************************************************************************)
(* The registry's dependency relation                                      *)
(***************************************************************************)
\* the record under n in d lists m among its dependencies
depends_on(d, n, m) ==
    \E i \in 1..Len(d) :
        /\ d[i].name = n
        /\ \E j \in 1..Len(d[i].dependencies) : d[i].dependencies[j] = m

\* n depends on m in d, directly or through at most k records
RECURSIVE reaches(_, _, _, _)
reaches(d, n, m, k) ==
    /\ k > 0
    /\ \/ depends_on(d, n, m)
       \/ \E i \in 1..Len(d) :
              depends_on(d, n, d[i].name) /\ reaches(d, d[i].name, m, k - 1)

\* the records of d can be removed one by one, each at a moment when no record
\* left lists it
RECURSIVE unregisters_to_empty(_)
unregisters_to_empty(d) ==
    \/ d = <<>>
    \/ \E i \in 1..Len(d) :
           /\ \A k \in 1..Len(d) : ~depends_on(d, d[k].name, d[i].name)
           /\ unregisters_to_empty(pop(d, d[i].name))

\* C31: in every reachable registry state no registered name depends on itself,
\* directly or through other records; a registry that is not empty holds a name
\* for which unregister finds no dependents, unregister raises only for a name
\* that has dependents, and the records can be removed one by one down to the
\* empty registry.
C31_DependenciesAcyclic ==
    /\ \A i \in 1..Len(domains) :
           ~reaches(domains, domains[i].name, domains[i].name, Len(domains))
    /\ domains # <<>> =>
           \E i \in 1..Len(domains) : dependents(domains[i].name) = <<>>
    /\ (ret.op = "unregister" /\ ret.raised = "ValueError") =>
           dependents(ret.name) # <<>>
    /\ unregisters_to_empty(domains)

\* three records hold a chain of dependencies, and the unregistration of its
\* root has been refused
C31_Witness ==
    /\ Len(domains) = 3
    /\ ret.op = "unregister"
    /\ ret.raised = "ValueError"
    /\ \E i \in 1..Len(domains) :
           /\ reaches(domains, domains[i].name, ret.name, 2)
           /\ ~depends_on(domains, domains[i].name, ret.name)

(***************************************************************************)
(* Health status and time of the last check                                *)
(***************************************************************************)
\* the record under domain_name in d has never been checked
unchecked(d, domain_name) ==
    \E i \in 1..Len(d) : d[i].name = domain_name /\ d[i].health = UNKNOWN

\* C32: in every reachable registry state a record's health is Unknown exactly
\* when its last_health_check is None; every health_check of a registered name,
\* whatever its probe does, leaves the record with a status other than Unknown
\* and a time of check; and no step takes a record that stays registered from
\* another status to Unknown.
C32_UnknownIffNeverChecked ==
    /\ [](\A i \in 1..Len(domains) :
             domains[i].health = UNKNOWN <=> domains[i].last_health_check = None)
    /\ [][(ret'.op = "health_check" /\ contains(domains, ret'.name)) =>
             /\ ~unchecked(domains', ret'.name)
             /\ item(domains', ret'.name).last_health_check # None]_vars
    /\ [][\A n \in Names :
             (contains(domains, n) /\ contains(domains', n)
                  /\ ~unchecked(domains, n)) => ~unchecked(domains', n)]_vars

\* a health check whose probe raised has left its record Unhealthy with a time
\* of check, next to a record that has not been checked
C32_Witness ==
    /\ ret.op = "health_check"
    /\ ret.args = <<"raise">>
    /\ Len(domains) = 2
    /\ domains[1].name = ret.name
    /\ domains[1].health = UNHEALTHY
    /\ domains[1].last_health_check = Timestamp
    /\ domains[2].health = UNKNOWN
    /\ domains[2].last_health_check = None

(***************************************************************************)
(* Health changes and their notification                                   *)
(***************************************************************************)
\* the step is a health_check that has changed the stored health of its name
health_changes ==
    /\ ret'.op = "health_check"
    /\ contains(domains, ret'.name)
    /\ stored_health(domains', ret'.name) # stored_health(domains, ret'.name)

\* the call has notified "health_change" once, every subscription called once
notified_once(r) ==
    /\ r.events = <<<<"health_change", r.name>>>>
    /\ r.invoked = every_handler("health_change", r.name)

\* C33, as stated: every health_check that changes the stored health of a
\* record calls the "health_change" handlers once, the change to Unhealthy made
\* for a probe that raises included.
C33_EveryChangeNotifies ==
    [][health_changes => notified_once(ret')]_vars

\* C33, as the code behaves: a health_check that changes the stored health calls
\* the "health_change" handlers once when its probe is absent or has answered,
\* and calls none of them when the change is the one to Unhealthy made for a
\* probe that raised.
C33_ChangeNotifiesUnlessProbeRaised ==
    [][health_changes =>
           IF ret'.args = <<"raise">>
           THEN /\ stored_health(domains', ret'.name) = UNHEALTHY
                /\ ret'.events = <<>>
                /\ ret'.invoked = <<>>
           ELSE notified_once(ret')]_vars

\* a health check whose probe raised has left its record Unhealthy and has
\* called neither of the two handlers subscribed to "health_change"
C33_Witness ==
    /\ ret.op = "health_check"
    /\ ret.args = <<"raise">>
    /\ ret.raised = ""
    /\ stored_health(domains, ret.name) = UNHEALTHY
    /\ Len(event_handlers["health_change"]) = 2
    /\ ret.invoked = <<>>

(***************************************************************************)
(* route and route_all on one state                                        *)
(***************************************************************************)
\* what route returned is what the list of route_all begins with
first_of(routed, all) ==
    IF all = <<>> THEN routed = NoRoute
    ELSE /\ routed # NoRoute
         /\ routed[1] = all[1][1]
         /\ routed[2] = all[1][2]
         /\ routed[3] = all[1][3]

\* C34: of a route call with nothing excluded and a route_all call on the same
\* input that follow each other with no operation between them, in either
\* order, route returns None exactly when route_all returns the empty list, and
\* otherwise the name, the processor and the score of the first element of
\* route_all.
C34_RouteIsFirstOfRouteAll ==
    [][ /\ ( /\ ret.op = "route" /\ ret.args[2] = <<>>
             /\ ret'.op = "route_all" /\ ret'.args[1] = ret.args[1] )
               => /\ ret.raised = "" /\ ret'.raised = ""
                  /\ first_of(ret.result, ret'.result)
        /\ ( /\ ret.op = "route_all"
             /\ ret'.op = "route" /\ ret'.args = <<ret.args[1], <<>>>> )
               => /\ ret.raised = "" /\ ret'.raised = ""
                  /\ first_of(ret'.result, ret.result)
    ]_vars

\* route has returned the second registered of two processors, which the same
\* state's route_all lists first of two, and a failure is counted for it
C34_Witness ==
    /\ ret.op = "route"
    /\ ret.args[2] = <<>>
    /\ ret.raised = ""
    /\ Len(domains) = 2
    /\ ret.result # NoRoute
    /\ ret.result[1] = domains[2].name
    /\ Len(route_all_result(ret.args[1])) = 2
    /\ ret.result[1] = route_all_result(ret.args[1])[1][1]
    /\ failure_count(ret.result[1]) > 0

(***************************************************************************)
(* route suspended among other tasks                                       *)
(***************************************************************************)
\* route has returned a tuple
routed == ret.op = "route" /\ ret.raised = "" /\ ret.result # NoRoute

\* C35, as stated: whenever route returns (name, processor, score), also after
\* other tasks have called disable, unregister or record_failure while it was
\* suspended at a can_handle, name is registered, enabled and not
\* circuit-broken at the return and processor is the processor registered
\* under name, not None.
C35_RoutedProcessorIsUsable ==
    routed =>
        /\ contains(domains, ret.result[1])
        /\ item(domains, ret.result[1]).enabled
        /\ ret.result[2] # None
        /\ ret.result[2] = item(domains, ret.result[1]).processor
        /\ ~is_circuit_broken(ret.result[1])

\* C35, as the code behaves: the tuple holds the best of the scores gathered
\* over the suspensions and what registry.get answers for its name at the
\* return: the processor when the name is registered and enabled then, None
\* when it has been disabled or unregistered since it was scored; the circuit
\* breaker is not asked again.
C35_RoutedProcessorIsReadAtReturn ==
    routed =>
        /\ ret.result[3].domain_name = ret.result[1]
        /\ ret.result[3].can_handle
        /\ IF contains(domains, ret.result[1])
              /\ item(domains, ret.result[1]).enabled
           THEN ret.result[2] = item(domains, ret.result[1]).processor
           ELSE ret.result[2] = None

\* route has returned, with None for its processor, a name that was disabled
\* while the call awaited the can_handle of the second candidate
C35_Witness ==
    /\ routed
    /\ ret.result[2] = None
    /\ Len(domains) = 2
    /\ ret.result[1] = domains[1].name
    /\ ~domains[1].enabled
    /\ domains[2].enabled

(***************************************************************************)
(* health_check_all suspended among other tasks                            *)
(***************************************************************************)
\* the step resumes health_check_all, run by the monitoring task, at the probe
\* it awaited
probe_answered ==
    /\ monitor.pc = "probing"
    /\ ~monitor.cancel
    /\ ret'.op = "monitor"

\* C36, as stated: health_check_all goes on to the next record or to its return
\* after every probe it awaited, also when another task has registered a
\* processor during the suspension: it never raises.
C36_HealthCheckAllNeverRaises ==
    [][probe_answered => monitor'.pc \in {"probing", "sleeping"}]_vars

\* C36, as the code behaves: resumed after a probe, health_check_all has checked
\* the record it probed; it goes on to the next record or returns when the dict
\* holds as many records as when the traversal began, and raises RuntimeError,
\* which sends the monitoring task to its delay, when a registration has
\* changed the size of the dict in the meantime.
C36_HealthCheckAllRaisesOnResize ==
    [][probe_answered =>
           /\ domains'[monitor.index].last_health_check # None
           /\ IF Len(domains) = monitor.size
              THEN monitor'.pc \in {"probing", "sleeping"}
              ELSE monitor'.pc = "delay"]_vars

\* a processor was registered while health_check_all awaited the probe of the
\* only record: the probe has answered, the record is checked, and the round
\* has ended in the error delay
C36_Witness ==
    /\ ret.op = "monitor"
    /\ Len(ret.args) = 3
    /\ ret.args[1] = "probing"
    /\ ret.args[3] = "true"
    /\ monitor.pc = "delay"
    /\ Len(domains) = 2
    /\ domains[1].health = HEALTHY
    /\ domains[2].health = UNKNOWN

(***************************************************************************)
(* Starting and stopping the monitoring task                               *)
(***************************************************************************)
\* C37: the registry holds one task, and start_health_monitoring never replaces
\* a task that is not done: called while a loop is alive, a cancellation
\* pending or not, it leaves that task as it is, and it makes a new task only
\* when there is none or the last one is done. No other step makes a task: a
\* task that has begun to run is not back at its beginning, and while there is
\* no task or a done one nothing changes. So no second loop comes to be.
C37_AtMostOneMonitor ==
    /\ [][ret'.op = "start_health_monitoring" =>
             IF running THEN monitor' = monitor
             ELSE monitor' = Task("ready", FALSE, 0, 0)]_vars
    /\ [][(ret'.op # "start_health_monitoring" /\ running /\ monitor.pc # "ready")
             => monitor'.pc # "ready"]_vars
    /\ [][(ret'.op # "start_health_monitoring" /\ ~running)
             => monitor' = monitor]_vars

\* start_health_monitoring was called while the loop awaited a probe, and the
\* loop is where it was
C37_Witness ==
    /\ ret.op = "start_health_monitoring"
    /\ monitor.pc = "probing"
    /\ ~monitor.cancel

\* C38, as stated: whenever start_health_monitoring has returned there is a
\* monitoring task that is not done and has no cancellation pending, also when
\* the call follows stop_health_monitoring directly.
C38_StartLeavesMonitoringRunning ==
    ret.op = "start_health_monitoring" => (running /\ ~monitor.cancel)

\* C38, as the code behaves: whenever start_health_monitoring has returned there
\* is a task that is not done, and a cancellation is pending on it exactly when
\* one was pending on a task not done before the call: the task that
\* stop_health_monitoring has cancelled and that has not run since is kept, and
\* then ends.
C38_StartKeepsACancelledTask ==
    /\ [](ret.op = "start_health_monitoring" => running)
    /\ [][ret'.op = "start_health_monitoring" =>
             (monitor'.cancel <=> (running /\ monitor.cancel))]_vars
    /\ (ret.op = "start_health_monitoring" /\ monitor.cancel)
           ~> (monitor.pc \in Done)

\* start_health_monitoring has returned, after a stop_health_monitoring with no
\* step of the task between them, and the task asleep between two rounds has
\* its cancellation pending
C38_Witness ==
    /\ ret.op = "start_health_monitoring"
    /\ monitor.pc = "sleeping"
    /\ monitor.cancel

(***************************************************************************)
(* Registration and the failure counters                                   *)
(***************************************************************************)
\* register has returned True
registered_now == ret.op = "register" /\ ret.raised = "" /\ ret.result = TRUE

\* C39, as stated: a processor that has just been registered has no failure
\* counted under its name and is not circuit-broken, also when failures were
\* counted for a processor of that name that has since been unregistered.
C39_NewlyRegisteredIsEligible ==
    registered_now =>
        /\ failure_count(ret.name) = 0
        /\ ~is_circuit_broken(ret.name)

\* C39, as the code behaves: register and unregister leave every failure counter
\* as it was; the circuit breaker reads the counters only, so the name of a
\* processor just registered is circuit-broken exactly when it was before.
C39_RegistrationKeepsCounters ==
    [][ret'.op \in {"register", "unregister"} => failures' = failures]_vars

\* a processor has just been registered, enabled, under a name whose circuit
\* breaker is open
C39_Witness ==
    /\ registered_now
    /\ \E i \in records_of(ret.name) : domains[i].enabled
    /\ is_circuit_broken(ret.name)

(***************************************************************************)
(* The engine and the failure counters                                     *)
(***************************************************************************)
\* the counter of n is in f2 what it is in f1: absent in both, or the same number
same_count(f1, f2, n) ==
    /\ (n \in DOMAIN f2) <=> (n \in DOMAIN f1)
    /\ n \in DOMAIN f1 => f2[n] = f1[n]

\* C40: a process call of an engine in registry mode adds no failure counter
\* and raises none, so it opens no circuit breaker; the counter of the domain
\* the router selected is absent after the call, whether the call returned or
\* the processor's analyze or synthesize raised; and the counter of every other
\* name is what it was.
C40_ProcessNeverCountsFailures ==
    [][(ret'.op = "process" /\ engine.use_registry) =>
           /\ \A n \in DOMAIN failures' :
                  n \in DOMAIN failures /\ failures'[n] <= failures[n]
           /\ \A n \in RoutedNames :
                  IF n = ret'.result.domain
                  THEN n \notin DOMAIN failures'
                  ELSE same_count(failures, failures', n)]_vars

\* the analysis by the processor the router selected has raised; no failure is
\* counted for that processor, and the other name, which is circuit-broken,
\* holds its count
C40_Witness ==
    /\ ret.op = "process"
    /\ ret.raised = "Exception"
    /\ ret.result.stage = FAILED
    /\ ret.result.domain = "a"
    /\ "a" \notin DOMAIN failures
    /\ is_circuit_broken("b")

=============================================================================
